---- MODULE Spec2Model ----
(***************************************************************************)
(* Verification model of the infra-mapper backend: report ingest, agent    *)
(* health scoring, alert evaluation and realtime notification.             *)
(*                                                                         *)
(* The persisted store is the PostgreSQL database behind SQLAlchemy; the   *)
(* variables hosts .. alerts hold its COMMITTED content.  Each request     *)
(* works on its own AsyncSession (db/database.py get_db).                  *)
(***************************************************************************)
EXTENDS Integers, Sequences, FiniteSets, TLC

\* ------------------------------------------------------------------------
\* Bounds of the exploration
\* ------------------------------------------------------------------------
\* longest container list carried by a report
MaxContainers == 2
\* number of reports one host may send before the exploration stops
MaxReports == 3
\* number of clock ticks
MaxTicks == 1
\* Rows of the alerts table.
MaxAlerts == 2
\* Minutes the clock runs in the specification of the alerts.
MaxMinutes == 2
\* Minutes the clock runs where an alert outlives its cooldown.
MaxAckMinutes == 4
\* Seconds the clock runs in the specification of the agent health.
MaxSeconds == 6
\* Ticks of the agent.
MaxAgentTicks == 3
\* Ticks of the agent where it reports to the backend.
MaxStreakTicks == 5
\* Longest list a collector of the agent returns.
MaxCollected == 2
\* Batches one log sink is sent.
MaxBatches == 2
\* External addresses the connections of a host go to.
MaxExternalIps == 22
\* Longest filter pattern and longest value matched against it.
MaxPatternLen == 3
MaxValueLen == 2
\* Calls of TcpdumpCollector.collect, and seconds the clock of the agent
\* runs in the specification of the packet capture.
MaxCalls == 3
MaxCaptureSeconds == 5
\* Seconds the clock runs in the specification of the capture threads.
MaxWorkerSeconds == 7

\* ------------------------------------------------------------------------
\* Program constants
\* ------------------------------------------------------------------------
DEFAULT_REPORT_INTERVAL == 30
MAX_CONSECUTIVE_FAILURES == 3
DEGRADED_THRESHOLD_FACTOR == 2
UNHEALTHY_THRESHOLD_FACTOR == 5
max_external == 20

\* ------------------------------------------------------------------------
\* Data domains
\* ------------------------------------------------------------------------
HostIds == {"h1", "h2"}

\* An IP address string is modelled by <<family, a, b, c, d>>.
IP(a, b, c, d) == <<4, a, b, c, d>>
IP_LOOPBACK4 == IP(127, 0, 0, 1)
IP_LOOPBACK6 == <<6, 0, 0, 0, 1>>
IP_ANY == IP(0, 0, 0, 0)
IP_PUBLIC == IP(8, 8, 8, 8)
IP_C1 == IP(172, 17, 0, 2)
IP_C2 == IP(172, 17, 0, 3)
IP_C3 == IP(172, 17, 0, 4)
FilteredRemoteIps == {IP_LOOPBACK4, IP_LOOPBACK6, IP_ANY}

\* ContainerInfo of a report: short id, the docker fields (abstracted to a
\* version value) and the container's ip address.
ContainerInfo(id, ver, ip) == [id |-> id, ver |-> ver, ip |-> ip]
ContRecords ==
  {ContainerInfo("c1", 1, IP_C1), ContainerInfo("c1", 2, IP_C1),
   ContainerInfo("c2", 1, IP_C2), ContainerInfo("c3", 1, IP_C3)}

\* ConnectionInfo of a report.
ConnectionInfo(state, remote, cid) ==
  [state |-> state, local_ip |-> IP_C1, remote_ip |-> remote,
   container_id |-> cid]
CONN_EST == ConnectionInfo("ESTABLISHED", IP_PUBLIC, "")
CONN_LISTEN == ConnectionInfo("LISTEN", IP_PUBLIC, "")
CONN_LOCAL == ConnectionInfo("ESTABLISHED", IP_LOOPBACK4, "")
CONN_LOCAL6 == ConnectionInfo("TIME_WAIT", IP_LOOPBACK6, "c1")
CONN_ANY == ConnectionInfo("ESTABLISHED", IP_ANY, "")
CONN_PEER == ConnectionInfo("ESTABLISHED", IP_C2, "c1")

\* ContainerLogReport of a report; ts_ok is FALSE for a timestamp holding a
\* "T" that datetime.fromisoformat rejects.
LOG_GOOD == [container_id |-> "c1", ts_ok |-> TRUE]
LOG_BAD == [container_id |-> "c1", ts_ok |-> FALSE]

\* AgentMetadata of a report; 0 / FALSE stand for None.
AgentMeta(interval, duration, error) ==
  [report_interval |-> interval, report_duration_ms |-> duration,
   error |-> error]
NoMeta == AgentMeta(0, 0, FALSE)

\* The description of the host in a report (HostInfo): hostname and
\* addresses (one value), docker version.
Desc(hn, dv) == [hostname |-> hn, docker_version |-> dv]

SeqsUpTo(S, n) == UNION {[1..k -> S] : k \in 0..n}

Report(h, d, cs, ns, conns, ls, m, meta) ==
  [host |-> h, desc |-> d, containers |-> cs, networks |-> ns,
   connections |-> conns, logs |-> ls, host_metrics |-> m, agent |-> meta]

\* ------------------------------------------------------------------------
\* State
\* ------------------------------------------------------------------------
VARIABLES
  now,          \* datetime.utcnow(), in seconds
  hosts,        \* table hosts: host id -> row
  containers,   \* table containers: host id -> (short id -> row)
  networks,     \* table networks: host id -> sequence of network ids
  connections,  \* table connections: host id -> sequence of rows
  logs,         \* table container_logs: host id -> sequence of rows
  metrics,      \* table host_metrics: host id -> sequence of timestamps
  resp,         \* last answer of POST /api/v1/report
  lastReport,   \* body of the last POST /api/v1/report
  replayed,     \* history: the last two POSTs carried the same body and
                \* both were answered 200
  active_connections,  \* WebSocketManager.active_connections
  notify,       \* the broadcast a report handler is suspended in
  reqs,         \* report handlers running concurrently, each on its own
                \* session: request id -> progress
  alerts,       \* table alerts, in the order of creation
  passes,       \* evaluations of the alert rules that are running, each
                \* on its own session: pass id -> progress
  sources,      \* what the collectors of the agent read on the host
  last_error,   \* InfraMapperAgent.last_error ("" for None)
  agent_report, \* the AgentReport built by the last collect
  ticks,        \* history: one entry per run_once of the agent
  sinks,        \* table log_sinks: sink id -> row
  attempts,     \* history: the logs forward_logs sent to each sink, out
                \* of which batch, and what the send did
  channels,     \* table alert_channels: channel id -> row
  deliveries,   \* history: the notifications handed to the channels, with
                \* what the send did
  graph,        \* the GraphData of the last GET /api/v1/graph
  matching,     \* a call of AlertService._matches_pattern: its arguments
                \* and, once it returned, its result
  collector,    \* the TcpdumpCollector of the agent, and the collect call
                \* it is in
  workers,      \* the capture threads of the collect call: container id
                \* -> progress of _capture_container
  calls         \* history: the calls of TcpdumpCollector.collect

storeVars == <<hosts, containers, networks, connections, logs, metrics>>
httpVars == <<resp, lastReport, replayed>>
wsVars == <<active_connections, notify>>
raceVars == <<reqs>>
alertVars == <<alerts, passes>>
agentVars == <<sources, last_error, agent_report, ticks>>
sinkVars == <<sinks, attempts>>
notifyVars == <<channels, deliveries>>
captureVars == <<collector, workers, calls>>
vars ==
  <<now, storeVars, httpVars, wsVars, raceVars, alertVars, agentVars,
    sinkVars, notifyVars, graph, matching, captureVars>>

\* The committed database as one value.
DB ==
  [hosts |-> hosts, containers |-> containers, networks |-> networks,
   connections |-> connections, logs |-> logs, metrics |-> metrics]

EmptyDB ==
  [hosts |-> <<>>, containers |-> [h \in HostIds |-> <<>>],
   networks |-> [h \in HostIds |-> <<>>],
   connections |-> [h \in HostIds |-> <<>>],
   logs |-> [h \in HostIds |-> <<>>],
   metrics |-> [h \in HostIds |-> <<>>]]

NoStats ==
  [containers_added |-> 0, containers_updated |-> 0,
   containers_removed |-> 0, logs_stored |-> 0, metrics_stored |-> 0]
NoResp == [status |-> 0, failedStep |-> 0, host |-> "", stats |-> NoStats]
NoReport == Report("", Desc(0, 0), <<>>, <<>>, <<>>, <<>>, FALSE, NoMeta)

WsIds == {"w1", "w2"}
PassIds == {"p1", "p2"}
NoPass ==
  [pc |-> "idle", offline |-> {}, todo |-> {}, host |-> "",
   auto_resolved |-> {}]
IdleNotify ==
  [pc |-> "idle", size |-> 0, visited |-> {}, current |-> "",
   disconnected |-> {}, answer |-> NoResp]

\* ------------------------------------------------------------------------
\* ReportService (services/report_service.py)
\* ------------------------------------------------------------------------
NewHostRow(d, t) ==
  [hostname |-> d.hostname, docker_version |-> d.docker_version,
   last_seen |-> t, is_online |-> TRUE,
   agent_health |-> "unknown", report_interval |-> 0,
   reports_count |-> 0, consecutive_failures |-> 0]

ReqIds == {"A", "B"}
NoReq ==
  [pc |-> "none", report |-> NoReport, existed |-> FALSE,
   loaded |-> NewHostRow(Desc(0, 0), 0), obj |-> NewHostRow(Desc(0, 0), 0),
   committed |-> FALSE, status |-> 0]

\* _update_host: update the row of the reporting host or create it.
UpdateHost(hs, r, t) ==
  IF r.host \in DOMAIN hs
  THEN [hs EXCEPT ![r.host] =
          [@ EXCEPT !.hostname = r.desc.hostname,
                    !.docker_version = r.desc.docker_version,
                    !.last_seen = t, !.is_online = TRUE]]
  ELSE [x \in DOMAIN hs \cup {r.host} |->
          IF x = r.host THEN NewHostRow(r.desc, t) ELSE hs[x]]

ReportedIds(cs) == {cs[i].id : i \in 1..Len(cs)}

\* _update_container_fields
ContainerRow(info, t) == [ver |-> info.ver, ip |-> info.ip, last_seen |-> t]

\* The second loop of _update_containers from entry i on: an entry whose id
\* is in the rows read at the start overwrites that row, any other entry is
\* added as a new row.
RECURSIVE UpsertContainers(_, _, _, _)
UpsertContainers(rows, cs, i, t) ==
  IF i > Len(cs) THEN rows
  ELSE UpsertContainers(
         [x \in DOMAIN rows \cup {cs[i].id} |->
            IF x = cs[i].id THEN ContainerRow(cs[i], t) ELSE rows[x]],
         cs, i + 1, t)

\* A variant of the first loop that deletes nothing.
DeleteNothing(existing, cs) == existing
\* The first loop of _update_containers: rows whose id is not reported are
\* deleted.
DeleteUnreported(existing, cs) ==
  [x \in DOMAIN existing \cap ReportedIds(cs) |-> existing[x]]

\* _update_containers
UpdateContainers(existing, cs, t) ==
  UpsertContainers(DeleteUnreported(existing, cs), cs, 1, t)

\* Two entries with the same id that is not yet stored are both added with
\* the primary key host:id; the next flush raises.
DuplicateNewContainer(existing, cs) ==
  \E i, j \in 1..Len(cs) :
    i < j /\ cs[i].id = cs[j].id /\ cs[i].id \notin DOMAIN existing

ContainerStats(existing, cs) ==
  [containers_added |->
     Cardinality({i \in 1..Len(cs) : cs[i].id \notin DOMAIN existing}),
   containers_updated |->
     Cardinality({i \in 1..Len(cs) : cs[i].id \in DOMAIN existing}),
   containers_removed |->
     Cardinality(DOMAIN existing \ ReportedIds(cs))]

\* _update_networks: delete the host's rows, insert the reported ones.
UpdateNetworks(ns) == ns

DuplicateNetwork(ns) ==
  \E i, j \in 1..Len(ns) : i < j /\ ns[i] = ns[j]

\* ip_to_container of _update_connections: the last container of the
\* report holding an address wins.
IpToContainer(cs) ==
  [ip \in {cs[i].ip : i \in 1..Len(cs)} |->
     LET last == CHOOSE i \in 1..Len(cs) :
                   /\ cs[i].ip = ip
                   /\ \A j \in 1..Len(cs) : cs[j].ip = ip => j <= i
     IN cs[last].id]

\* _is_private_ip: prefix tests on the dotted string.
IsPrivateIp(ip) ==
  /\ ip[1] = 4
  /\ \/ ip[2] = 10
     \/ ip[2] = 172 /\ 16 <= ip[3] /\ ip[3] <= 31
     \/ ip[2] = 192 /\ ip[3] = 168
     \/ ip[2] = 100 /\ ip[3] = 64

\* _determine_connection_type
DetermineConnectionType(conn, ip_to_container) ==
  IF conn.remote_ip \in DOMAIN ip_to_container THEN "internal"
  ELSE IF IsPrivateIp(conn.remote_ip) THEN "cross-host"
  ELSE "external"

\* A variant of the filter that lets every reported connection through.
KeepConnectionAll(conn) == TRUE
\* The two "continue" tests of _update_connections.
KeepConnection(conn) ==
  /\ conn.state # "LISTEN"
  /\ conn.remote_ip \notin FilteredRemoteIps

ConnectionRow(conn, ip_to_container) ==
  [source_container_id |->
     IF conn.container_id # "" THEN conn.container_id
     ELSE IF conn.local_ip \in DOMAIN ip_to_container
          THEN ip_to_container[conn.local_ip] ELSE "",
   source_ip |-> conn.local_ip, target_ip |-> conn.remote_ip,
   state |-> conn.state,
   connection_type |-> DetermineConnectionType(conn, ip_to_container)]

NewConnections(conns, cs) ==
  LET kept == SelectSeq(conns, KeepConnection)
  IN [i \in 1..Len(kept) |-> ConnectionRow(kept[i], IpToContainer(cs))]

\* A variant that inserts without deleting the host's rows first.
AppendConnections(existing, conns, cs) ==
  existing \o NewConnections(conns, cs)
\* _update_connections: delete the host's rows, insert the kept ones.
UpdateConnections(existing, conns, cs) == NewConnections(conns, cs)

\* LogsService.store_logs (services/logs_service.py): a log whose timestamp
\* does not parse is skipped, the others are appended.
StoredLogs(ls) == SelectSeq(ls, LAMBDA l : l.ts_ok)
StoreLogs(rows, ls) ==
  rows \o [i \in 1..Len(StoredLogs(ls)) |-> StoredLogs(ls)[i].container_id]

\* _store_metrics: one host_metrics row stamped utcnow().
StoreMetrics(rows, r, t) ==
  IF r.host_metrics THEN Append(rows, t) ELSE rows

\* ------------------------------------------------------------------------
\* AgentHealthService (services/agent_health_service.py)
\* ------------------------------------------------------------------------
\* A variant of the score that does not look at the failure streak.
CalculateHealthStatusNoStreak(row, report_duration_ms) ==
  LET interval == IF row.report_interval # 0 THEN row.report_interval
                  ELSE DEFAULT_REPORT_INTERVAL
  IN IF /\ report_duration_ms # 0
        /\ report_duration_ms * 10 > interval * 1000 * 9
     THEN "degraded"
     ELSE IF row.reports_count < 3 THEN "unknown"
     ELSE "healthy"

\* A variant of the score that looks at the number of reports before the
\* duration of the report.
CalculateHealthStatusCountFirst(row, report_duration_ms) ==
  LET interval == IF row.report_interval # 0 THEN row.report_interval
                  ELSE DEFAULT_REPORT_INTERVAL
  IN IF row.consecutive_failures >= MAX_CONSECUTIVE_FAILURES THEN "degraded"
     ELSE IF row.reports_count < 3 THEN "unknown"
     ELSE IF /\ report_duration_ms # 0
             /\ report_duration_ms * 10 > interval * 1000 * 9
          THEN "degraded"
     ELSE "healthy"

\* _calculate_health_status; duration 0 stands for None.
CalculateHealthStatus(row, report_duration_ms) ==
  LET interval == IF row.report_interval # 0 THEN row.report_interval
                  ELSE DEFAULT_REPORT_INTERVAL
  IN IF row.consecutive_failures >= MAX_CONSECUTIVE_FAILURES THEN "degraded"
     ELSE IF /\ report_duration_ms # 0
             /\ report_duration_ms * 10 > interval * 1000 * 9
          THEN "degraded"
     ELSE IF row.reports_count < 3 THEN "unknown"
     ELSE "healthy"

\* update_agent_health on the row of an existing host.
UpdateAgentHealthRow(row, meta, t) ==
  LET r1 == [row EXCEPT
               !.report_interval =
                  IF meta.report_interval # 0 THEN meta.report_interval
                  ELSE @,
               !.reports_count = @ + 1,
               !.consecutive_failures = IF meta.error THEN @ + 1 ELSE 0]
  IN [r1 EXCEPT
        !.agent_health = CalculateHealthStatus(r1, meta.report_duration_ms),
        !.last_seen = t, !.is_online = TRUE]

UpdateAgentHealth(hs, h, meta, t) ==
  IF h \in DOMAIN hs
  THEN [hs EXCEPT ![h] = UpdateAgentHealthRow(@, meta, t)]
  ELSE hs

\* The sweep without the offline branch (a variant the check of C11 tells
\* apart).
CheckAgentHealthRowLateOnly(row, t) ==
  LET expected_interval == IF row.report_interval # 0 THEN row.report_interval
                           ELSE DEFAULT_REPORT_INTERVAL
      late == t - row.last_seen > expected_interval * DEGRADED_THRESHOLD_FACTOR
      new_health == IF late THEN "degraded" ELSE row.agent_health
  IN IF new_health # row.agent_health
     THEN [row EXCEPT !.agent_health = new_health, !.last_seen = t]
     ELSE row

\* check_all_agents_health for one host: the row is written when the
\* health or is_online changes, and every UPDATE stamps last_seen.
CheckAgentHealthRow(row, t) ==
  LET expected_interval == IF row.report_interval # 0 THEN row.report_interval
                           ELSE DEFAULT_REPORT_INTERVAL
      seconds_since_last_report == t - row.last_seen
      offline == seconds_since_last_report
                   > expected_interval * UNHEALTHY_THRESHOLD_FACTOR
      late == seconds_since_last_report
                > expected_interval * DEGRADED_THRESHOLD_FACTOR
      new_health == IF offline THEN "unhealthy"
                    ELSE IF late THEN "degraded"
                    ELSE row.agent_health
      new_is_online == IF offline THEN FALSE ELSE row.is_online
  IN IF new_health # row.agent_health \/ new_is_online # row.is_online
     THEN [row EXCEPT !.agent_health = new_health,
                      !.is_online = new_is_online, !.last_seen = t]
     ELSE row

\* reset_agent_stats on the row of an existing host.
ResetAgentStatsRow(row, t) ==
  LET new == [row EXCEPT !.reports_count = 0, !.consecutive_failures = 0,
                         !.agent_health = "unknown"]
  IN IF new # row THEN [new EXCEPT !.last_seen = t] ELSE row

\* ------------------------------------------------------------------------
\* POST /api/v1/report (api/routes.py receive_report)
\* ------------------------------------------------------------------------
\* Steps of the ingest: 1 host, 2 containers, 3 networks, 4 connections,
\* 5 logs, 6 metrics and final commit, 7 agent health, 8 alert evaluation,
\* 9 realtime notification.  failAt names the step in which the database
\* or the called service raises; 0 is a run without such a failure.
FailPoints == 0..8

\* The session's view after steps 1 to 4 (nothing committed yet).
AfterStep4(db, r, t) ==
  [db EXCEPT
     !.hosts = UpdateHost(@, r, t),
     !.containers[r.host] = UpdateContainers(@, r.containers, t),
     !.networks[r.host] = UpdateNetworks(r.networks),
     !.connections[r.host] =
        UpdateConnections(@, r.connections, r.containers)]

\* store_logs adds the logs and commits the session when it stored any.
AfterStep5(db, r, t) ==
  [AfterStep4(db, r, t) EXCEPT !.logs[r.host] = StoreLogs(@, r.logs)]

LogsCommit(r) == Len(StoredLogs(r.logs)) > 0

AfterStep6(db, r, t) ==
  [AfterStep5(db, r, t) EXCEPT !.metrics[r.host] = StoreMetrics(@, r, t)]

\* The step of process_report that raises, 0 if none does.  The primary key
\* conflict of duplicate new rows is raised by the flush that precedes the
\* delete statement of step 3.
FailedStep(db, r, failAt) ==
  LET flush == IF \/ DuplicateNewContainer(db.containers[r.host],
                                            r.containers)
                  \/ DuplicateNetwork(r.networks)
               THEN {3} ELSE {}
      inj == IF failAt \in 1..6 THEN {failAt} ELSE {}
  IN IF flush \cup inj = {} THEN 0
     ELSE CHOOSE k \in flush \cup inj : \A m \in flush \cup inj : k <= m

\* process_report: the committed database it leaves behind.  A failure is
\* rolled back by get_db, which undoes what was not committed before.
ProcessReport(db, r, t, failAt) ==
  LET f == FailedStep(db, r, failAt)
  IN IF f = 0 THEN AfterStep6(db, r, t)
     ELSE IF f = 6 /\ LogsCommit(r) THEN AfterStep5(db, r, t)
     ELSE db

ReportStats(db, r) ==
  [containers_added |->
     ContainerStats(db.containers[r.host], r.containers).containers_added,
   containers_updated |->
     ContainerStats(db.containers[r.host], r.containers).containers_updated,
   containers_removed |->
     ContainerStats(db.containers[r.host], r.containers).containers_removed,
   logs_stored |-> Len(StoredLogs(r.logs)),
   metrics_stored |-> IF r.host_metrics THEN 1 ELSE 0]

\* Steps 1 to 7 of the handler, which run on one session.  Step 8, the
\* evaluation of the alert rules, changes nothing where no rule is defined;
\* with a rule it is the pass that EvaluateRules starts, at any time after
\* the commit of step 7.
Ingest(db, r, t, failAt) ==
  LET f == FailedStep(db, r, failAt)
      d6 == ProcessReport(db, r, t, failAt)
  IN IF f # 0 THEN d6
     ELSE IF failAt = 7 THEN d6
     ELSE [d6 EXCEPT !.hosts = UpdateAgentHealth(@, r.host, r.agent, t)]

ReportsSent(h) == IF h \in DOMAIN hosts THEN hosts[h].reports_count ELSE 0

\* ------------------------------------------------------------------------
\* WebSocketManager (services/websocket_manager.py)
\* ------------------------------------------------------------------------
\* broadcast up to its first await: nothing to do without a client,
\* otherwise the loop takes a first connection from the set, whose size the
\* iterator remembers, and awaits send_text on it.
StartBroadcast(kind, act, answer) ==
  {[pc |-> kind, size |-> Cardinality(act), visited |-> {c}, current |-> c,
    disconnected |-> {}, answer |-> answer] : c \in act}

\* connect: the client is accepted and added to the set.
WsConnect(w) ==
  /\ w \notin active_connections
  /\ active_connections' = active_connections \cup {w}
  /\ UNCHANGED <<now, storeVars, httpVars, notify, raceVars, alertVars,
                 agentVars, sinkVars, notifyVars, graph, matching,
                 captureVars>>

\* disconnect, called by the endpoint when the client is gone.
WsDisconnect(w) ==
  /\ w \in active_connections
  /\ active_connections' = active_connections \ {w}
  /\ UNCHANGED <<now, storeVars, httpVars, notify, raceVars, alertVars,
                 agentVars, sinkVars, notifyVars, graph, matching,
                 captureVars>>

\* The handler from its start to its answer or to its first await inside
\* the broadcasts of step 9.  While a broadcast is running the answer is
\* pending (status 0).
ReceiveReport(r, failAt) ==
  /\ notify.pc = "idle"
  /\ ReportsSent(r.host) < MaxReports
  /\ Len(logs[r.host]) < MaxReports
  /\ Len(metrics[r.host]) < MaxReports
  /\ \E f \in {FailedStep(DB, r, failAt)}, d \in {Ingest(DB, r, now, failAt)} :
       /\ hosts' = d.hosts
       /\ containers' = d.containers
       /\ networks' = d.networks
       /\ connections' = d.connections
       /\ logs' = d.logs
       /\ metrics' = d.metrics
       /\ LET answer ==
                IF f # 0
                THEN [status |-> 500, failedStep |-> f, host |-> r.host,
                      stats |-> NoStats]
                ELSE [status |-> 200,
                      failedStep |-> IF failAt \in 7..8 THEN failAt ELSE 0,
                      host |-> r.host, stats |-> ReportStats(DB, r)]
          IN IF f # 0 \/ active_connections = {}
             THEN resp' = answer /\ notify' = IdleNotify
             ELSE /\ resp' = [NoResp EXCEPT !.host = r.host]
                  /\ notify' \in StartBroadcast("host_update",
                                                active_connections, answer)
  /\ lastReport' = r
  /\ replayed' = (r = lastReport /\ resp.status = 200 /\ resp'.status = 200)
  /\ UNCHANGED <<now, active_connections, raceVars, alertVars, agentVars,
                 sinkVars, notifyVars, graph, matching, captureVars>>

\* The handler resumes when send_text returns (ok) or raises (~ok, caught):
\* the loop asks the set iterator for the next connection, which raises
\* RuntimeError when the set changed size since the loop began; nothing in
\* receive_report catches it before the outer handler, which answers 500.
\* At the end of the loop the dead connections are removed and the handler
\* goes on to the second broadcast or answers.
SendReturns(ok) ==
  /\ notify.pc \in {"host_update", "graph_refresh"}
  /\ LET disc == IF ok THEN notify.disconnected
                 ELSE notify.disconnected \cup {notify.current}
         remaining == active_connections \ notify.visited
         alive == active_connections \ disc
     IN IF Cardinality(active_connections) # notify.size
        THEN /\ resp' = [notify.answer EXCEPT !.status = 500,
                                    !.failedStep = 9, !.stats = NoStats]
             /\ notify' = IdleNotify
             /\ UNCHANGED active_connections
        ELSE IF remaining # {}
        THEN /\ \E c \in remaining :
                  notify' = [notify EXCEPT !.visited = @ \cup {c},
                                           !.current = c,
                                           !.disconnected = disc]
             /\ UNCHANGED <<resp, active_connections>>
        ELSE /\ active_connections' = alive
             /\ IF notify.pc = "host_update" /\ alive # {}
                THEN /\ notify' \in StartBroadcast("graph_refresh", alive,
                                                   notify.answer)
                     /\ UNCHANGED resp
                ELSE /\ notify' = IdleNotify
                     /\ resp' = notify.answer
  /\ replayed' = FALSE
  /\ UNCHANGED <<now, storeVars, lastReport, raceVars, alertVars, agentVars,
                 sinkVars, notifyVars, graph, matching, captureVars>>

\* POST /api/v1/agents/health/check: the sweep over every host.
CheckAllAgentsHealth ==
  /\ hosts' = [h \in DOMAIN hosts |-> CheckAgentHealthRow(hosts[h], now)]
  /\ UNCHANGED <<now, containers, networks, connections, logs, metrics,
                 httpVars, wsVars, raceVars, alertVars, agentVars, sinkVars,
                 notifyVars, graph, matching, captureVars>>

\* POST /api/v1/agents/health/{host_id}/reset.
ResetAgentStats(h) ==
  /\ h \in DOMAIN hosts
  /\ hosts' = [hosts EXCEPT ![h] = ResetAgentStatsRow(@, now)]
  /\ UNCHANGED <<now, containers, networks, connections, logs, metrics,
                 httpVars, wsVars, raceVars, alertVars, agentVars, sinkVars,
                 notifyVars, graph, matching, captureVars>>

\* The clock goes on by step seconds, up to limit.
Advance(step, limit) ==
  /\ now + step <= limit
  /\ now' = now + step
  /\ UNCHANGED <<storeVars, httpVars, wsVars, raceVars, alertVars, agentVars,
                 sinkVars, notifyVars, graph, matching, captureVars>>

Tick == Advance(1, MaxTicks)

\* ------------------------------------------------------------------------
\* AlertService (services/alert_service.py)
\* ------------------------------------------------------------------------
\* The enabled rule: host_offline, every host, timeout and cooldown in
\* minutes.
OfflineRule == [id |-> "r1", timeout_minutes |-> 1, cooldown_minutes |-> 1]

\* timedelta(minutes=m), in seconds.
Minutes(m) == m * 60

\* The row _create_alert adds, of which the title, the message and the
\* acknowledgement stamps are left out; -1 stands for None.
NewAlert(rule, h, t) ==
  [rule_id |-> rule.id, host_id |-> h, status |-> "active",
   triggered_at |-> t, resolved_at |-> -1, notifications_sent |-> <<>>]

\* The severity (the default of the column) and the type of the rule.
OfflineRuleSeverity == "warning"
OfflineRuleType == "host_offline"

ChannelIds == {"ch1", "ch2"}

\* A row of alert_channels as create_channel makes it; an empty filter
\* accepts all.
AlertChannel(severity_filter, rule_type_filter) ==
  [enabled |-> TRUE, severity_filter |-> severity_filter,
   rule_type_filter |-> rule_type_filter, last_used_at |-> -1,
   last_error |-> ""]

ChannelConfigs ==
  {AlertChannel({}, {}), AlertChannel({"critical"}, {}),
   AlertChannel({"warning"}, {OfflineRuleType})}

ChannelsStart ==
  /\ channels = <<>>
  /\ deliveries = <<>>

\* The orders in which a select without ORDER BY may return the rows S.
Orders(S) ==
  {o \in [1..Cardinality(S) -> S] :
     \A i, j \in 1..Cardinality(S) : o[i] = o[j] => i = j}

\* The filters of _send_notifications.
ChannelAccepts(row) ==
  /\ row.severity_filter # {} => OfflineRuleSeverity \in row.severity_filter
  /\ row.rule_type_filter # {} => OfflineRuleType \in row.rule_type_filter

NotificationRecord(c, success) ==
  [channel_id |-> c, success |-> success,
   error |-> IF success THEN "" ELSE "error"]

\* The loop of _send_notifications left at the first send that fails (a
\* variant the check of C18 tells apart).
SendNotificationsUntilFailure(chs, order, sent) ==
  LET Accepted(c) == ChannelAccepts(chs[c])
      accepted == SelectSeq(order, Accepted)
      failed == {i \in DOMAIN accepted : ~sent[accepted[i]]}
      last == IF failed = {} THEN Len(accepted)
              ELSE CHOOSE i \in failed : \A j \in failed : i <= j
  IN [i \in 1..last |-> NotificationRecord(accepted[i], sent[accepted[i]])]

\* The list notifications_sent that _send_notifications builds over the
\* enabled channels in the order of the select; send_notification returns
\* (False, error) for whatever goes wrong in a send.
SendNotifications(chs, order, sent) ==
  LET Accepted(c) == ChannelAccepts(chs[c])
      accepted == SelectSeq(order, Accepted)
  IN [i \in DOMAIN accepted |->
        NotificationRecord(accepted[i], sent[accepted[i]])]

\* POST /api/v1/alerts/channels
CreateChannel(c, row) ==
  /\ c \notin DOMAIN channels
  /\ channels' = [x \in DOMAIN channels \cup {c} |->
                    IF x = c THEN row ELSE channels[x]]
  /\ UNCHANGED <<now, storeVars, httpVars, wsVars, raceVars, alertVars,
                 agentVars, sinkVars, deliveries, graph, matching,
                 captureVars>>

\* _evaluate_host_offline: the hosts last seen before the cutoff.
OfflineHosts(hs, rule, t) ==
  {h \in DOMAIN hs : hs[h].last_seen < t - Minutes(rule.timeout_minutes)}

\* _is_in_cooldown: an alert of the rule for the host was triggered after
\* the cutoff.
IsInCooldown(rows, rule, h, t) ==
  \E i \in 1..Len(rows) :
    /\ rows[i].rule_id = rule.id
    /\ rows[i].triggered_at > t - Minutes(rule.cooldown_minutes)
    /\ rows[i].host_id = h

\* _get_active_alert: the active alerts of the rule for the host.
GetActiveAlert(rows, rule_id, h) ==
  {i \in 1..Len(rows) :
     /\ rows[i].rule_id = rule_id
     /\ rows[i].status = "active"
     /\ rows[i].host_id = h}

\* A variant of the selection below without the branch of the empty list.
AlertsToResolveNotIn(rows, rule, offline_host_ids) ==
  {i \in 1..Len(rows) :
     /\ rows[i].rule_id = rule.id
     /\ rows[i].status = "active"
     /\ offline_host_ids # {}
     /\ rows[i].host_id \notin offline_host_ids}

\* _resolve_old_alerts: the active alerts of the rule whose host is not in
\* the offline list (every active alert of the rule if the list is empty).
AlertsToResolve(rows, rule, offline_host_ids) ==
  {i \in 1..Len(rows) :
     /\ rows[i].rule_id = rule.id
     /\ rows[i].status = "active"
     /\ IF offline_host_ids # {} THEN rows[i].host_id \notin offline_host_ids
        ELSE TRUE}

ResolveOldAlerts(rows, rule, offline_host_ids, t) ==
  [i \in 1..Len(rows) |->
     IF i \in AlertsToResolve(rows, rule, offline_host_ids)
     THEN [rows[i] EXCEPT !.status = "resolved", !.resolved_at = t]
     ELSE rows[i]]

\* evaluate_all_rules, called by POST /api/v1/alerts/evaluate and by step 8
\* of every report handler, up to the select of the offline hosts.
EvaluateRules(p) ==
  /\ passes[p].pc = "idle"
  /\ \E off \in {OfflineHosts(hosts, OfflineRule, now)} :
       passes' = [passes EXCEPT ![p] =
         [pc |-> "hosts", offline |-> off, todo |-> off, host |-> "",
          auto_resolved |-> {}]]
  /\ UNCHANGED <<now, storeVars, httpVars, wsVars, raceVars, alerts,
                 agentVars, sinkVars, notifyVars, graph, matching,
                 captureVars>>

\* The loop over the offline hosts, for host h: the selects of
\* _is_in_cooldown and _get_active_alert decide whether an alert is created.
CheckHost(p, h) ==
  /\ passes[p].pc = "hosts"
  /\ h \in passes[p].todo
  /\ passes' = [passes EXCEPT ![p] =
       IF \/ IsInCooldown(alerts, OfflineRule, h, now)
          \/ GetActiveAlert(alerts, OfflineRule.id, h) # {}
       THEN [@ EXCEPT !.todo = @ \ {h}]
       ELSE [@ EXCEPT !.todo = @ \ {h}, !.pc = "create", !.host = h]]
  /\ UNCHANGED <<now, storeVars, httpVars, wsVars, raceVars, alerts,
                 agentVars, sinkVars, notifyVars, graph, matching,
                 captureVars>>

\* PUT /api/v1/alerts/channels/{channel_id}, for the field enabled.
UpdateChannel(c, enabled) ==
  /\ c \in DOMAIN channels
  /\ channels[c].enabled # enabled
  /\ channels' = [channels EXCEPT ![c].enabled = enabled]
  /\ UNCHANGED <<now, storeVars, httpVars, wsVars, raceVars, alertVars,
                 agentVars, sinkVars, deliveries, graph, matching,
                 captureVars>>

\* _create_alert: the alert is added and committed, then a notification
\* is sent to every enabled channel that accepts it and the list of what
\* was sent is written to the alert.
CreateAlert(p) ==
  /\ passes[p].pc = "create"
  /\ Len(alerts) < MaxAlerts
  /\ LET enabled == {c \in DOMAIN channels : channels[c].enabled}
     IN \E order \in Orders(enabled), sent \in [enabled -> BOOLEAN] :
          \E records \in {SendNotifications(channels, order, sent)} :
            /\ alerts' =
                 Append(alerts,
                        [NewAlert(OfflineRule, passes[p].host, now)
                           EXCEPT !.notifications_sent = records])
            /\ channels' =
                 [c \in DOMAIN channels |->
                    IF \E i \in DOMAIN records : records[i].channel_id = c
                    THEN [channels[c] EXCEPT
                            !.last_used_at = now,
                            !.last_error = IF sent[c] THEN @ ELSE "error"]
                    ELSE channels[c]]
            /\ deliveries' =
                 deliveries
                 \o [i \in DOMAIN records |->
                       [alert |-> Len(alerts) + 1,
                        channel_id |-> records[i].channel_id,
                        ok |-> sent[records[i].channel_id]]]
  /\ passes' = [passes EXCEPT ![p].pc = "hosts", ![p].host = ""]
  /\ UNCHANGED <<now, storeVars, httpVars, wsVars, raceVars, agentVars,
                 sinkVars, graph, matching, captureVars>>

\* _resolve_old_alerts at the end of the loop, with the list of offline
\* hosts the pass selected at its start; auto_resolved records the alerts
\* whose resolution the pass logs.
ResolveAlerts(p) ==
  /\ passes[p].pc = "hosts"
  /\ passes[p].todo = {}
  /\ alerts' = ResolveOldAlerts(alerts, OfflineRule, passes[p].offline, now)
  /\ passes' = [passes EXCEPT ![p] =
       [NoPass EXCEPT !.auto_resolved =
          AlertsToResolve(alerts, OfflineRule, passes[p].offline)]]
  /\ UNCHANGED <<now, storeVars, httpVars, wsVars, raceVars, agentVars,
                 sinkVars, notifyVars, graph, matching, captureVars>>

\* acknowledge_alert (POST /api/v1/alerts/{id}/acknowledge).
AcknowledgeAlert(i) ==
  /\ i \in 1..Len(alerts)
  /\ alerts' = [alerts EXCEPT ![i].status = "acknowledged"]
  /\ UNCHANGED <<now, storeVars, httpVars, wsVars, raceVars, passes,
                 agentVars, sinkVars, notifyVars, graph, matching,
                 captureVars>>

\* resolve_alert (POST /api/v1/alerts/{id}/resolve).
ResolveAlert(i) ==
  /\ i \in 1..Len(alerts)
  /\ alerts' = [alerts EXCEPT ![i].status = "resolved",
                              ![i].resolved_at = now]
  /\ UNCHANGED <<now, storeVars, httpVars, wsVars, raceVars, passes,
                 agentVars, sinkVars, notifyVars, graph, matching,
                 captureVars>>

\* ------------------------------------------------------------------------
\* LogSinkService (services/log_sink_service.py)
\* ------------------------------------------------------------------------
SinkIds == {"s1", "s2"}

\* A row of log_sinks as create_sink makes it; an empty filter accepts all.
LogSink(filter_hosts, filter_containers) ==
  [enabled |-> TRUE, filter_hosts |-> filter_hosts,
   filter_containers |-> filter_containers, filter_streams |-> {},
   logs_sent |-> 0, errors_count |-> 0, last_success |-> -1,
   last_error |-> -1, last_error_message |-> ""]

SinkConfigs == {LogSink({}, {}), LogSink({"h2"}, {}), LogSink({}, {"c2"})}

SinksStart ==
  /\ sinks = <<>>
  /\ attempts = [s \in SinkIds |-> <<>>]

\* _filter_logs
FilterLogs(ls, sink, host_id) ==
  IF sink.filter_hosts # {} /\ host_id \notin sink.filter_hosts THEN <<>>
  ELSE LET Stream(log) == IF "stream" \in DOMAIN log THEN log.stream
                          ELSE "stdout"
           Keep(log) ==
             /\ sink.filter_containers # {}
                => log.container_id \in sink.filter_containers
             /\ sink.filter_streams # {}
                => Stream(log) \in sink.filter_streams
       IN SelectSeq(ls, Keep)

\* _update_sink_stats
UpdateSinkStats(row, success, count, error, t) ==
  IF success
  THEN [row EXCEPT !.last_success = t, !.logs_sent = @ + count]
  ELSE [row EXCEPT !.last_error = t, !.last_error_message = error,
                   !.errors_count = @ + 1]

\* The body of the loop of forward_logs for one enabled sink that is left
\* with logs: sent is "sent" when the sender returns True, "refused" when it
\* returns False (_http_post: a status of 400 or more, or an exception of
\* the HTTP client, which it catches), "raised" when the sender raises.
ForwardToSink(row, filtered, sent, t) ==
  CASE sent = "sent" -> UpdateSinkStats(row, TRUE, Len(filtered), "", t)
    [] sent = "raised" -> UpdateSinkStats(row, FALSE, 0, "str(e)", t)
    [] OTHER -> row

\* forward_logs: every enabled sink, in turn.
ForwardLogs(ls, host_id, sent) ==
  /\ \A s \in SinkIds : Len(attempts[s]) < MaxBatches
  /\ LET Tried(s) == /\ sinks[s].enabled
                     /\ FilterLogs(ls, sinks[s], host_id) # <<>>
     IN /\ \E s \in DOMAIN sinks : sinks[s].enabled
        /\ sinks' = [s \in DOMAIN sinks |->
                       IF Tried(s)
                       THEN ForwardToSink(sinks[s],
                                          FilterLogs(ls, sinks[s], host_id),
                                          sent[s], now)
                       ELSE sinks[s]]
        /\ attempts' = [s \in SinkIds |->
                          IF s \in DOMAIN sinks /\ Tried(s)
                          THEN Append(attempts[s],
                                      [logs |-> FilterLogs(ls, sinks[s],
                                                           host_id),
                                       sent |-> sent[s], batch |-> ls,
                                       host_id |-> host_id])
                          ELSE attempts[s]]
  /\ UNCHANGED <<now, storeVars, httpVars, wsVars, raceVars, alertVars,
                 agentVars, notifyVars, graph, matching, captureVars>>

\* POST /api/v1/log-sinks
CreateSink(s, row) ==
  /\ s \notin DOMAIN sinks
  /\ sinks' = [x \in DOMAIN sinks \cup {s} |->
                 IF x = s THEN row ELSE sinks[x]]
  /\ UNCHANGED <<now, storeVars, httpVars, wsVars, raceVars, alertVars,
                 agentVars, attempts, notifyVars, graph, matching,
                 captureVars>>

\* POST /api/v1/log-sinks/{sink_id}/toggle
ToggleSink(s) ==
  /\ s \in DOMAIN sinks
  /\ sinks' = [sinks EXCEPT ![s].enabled = ~@]
  /\ UNCHANGED <<now, storeVars, httpVars, wsVars, raceVars, alertVars,
                 agentVars, attempts, notifyVars, graph, matching,
                 captureVars>>

\* ------------------------------------------------------------------------
\* GraphService (services/graph_service.py)
\* ------------------------------------------------------------------------
NoGraph == [built |-> FALSE, nodes |-> <<>>, edges |-> <<>>]

GraphStart == graph = NoGraph

\* Node ids: "container:<host_id>:<container_id>" and "external:<ip>".
ContainerNode(h, c) == <<"container", h, c>>
ExternalNode(ip) == <<"external", ip>>

\* The limit taken one node later (a variant the check of C19 tells apart).
LateExternalLimit(external_count) == external_count > max_external

\* external_count >= max_external
AtExternalLimit(external_count) == external_count >= max_external

\* _get_hosts: the hosts seen in the last 5 minutes, or all of them.
GraphHosts(db, include_offline, t) ==
  {h \in DOMAIN db.hosts :
     include_offline \/ db.hosts[h].last_seen >= t - Minutes(5)}

\* The loop of generate_graph over the connections of host h from row i
\* on; acc holds nodes, the keys of edge_data in the order of insertion,
\* and external_count.  A connection whose source is no container of the
\* graph is skipped; the target is the container of the same host with the
\* target address, or else an external node, while there are fewer than
\* max_external of them.
RECURSIVE ConnectionEdges(_, _, _, _)
ConnectionEdges(db, h, i, acc) ==
  IF i > Len(db.connections[h]) THEN acc
  ELSE
    LET conn == db.connections[h][i]
        has_source == /\ conn.source_container_id # ""
                      /\ conn.source_container_id \in DOMAIN db.containers[h]
        source_id == ContainerNode(h, conn.source_container_id)
        targets == {c \in DOMAIN db.containers[h] :
                      db.containers[h][c].ip = conn.target_ip}
        external_id == ExternalNode(conn.target_ip)
        known == \E k \in DOMAIN acc.nodes : acc.nodes[k] = external_id
        limited == targets = {} /\ AtExternalLimit(acc.external_count)
        target_id == IF targets # {}
                     THEN ContainerNode(h, CHOOSE c \in targets : TRUE)
                     ELSE external_id
        with_node == IF targets = {} /\ ~known
                     THEN [acc EXCEPT !.nodes = Append(@, external_id),
                                      !.external_count = @ + 1]
                     ELSE acc
        edge_key == <<source_id, target_id>>
        with_edge ==
          IF /\ source_id # target_id
             /\ \A k \in DOMAIN with_node.edge_data :
                  with_node.edge_data[k] # edge_key
          THEN [with_node EXCEPT !.edge_data = Append(@, edge_key)]
          ELSE with_node
    IN ConnectionEdges(db, h, i + 1,
                       IF ~has_source \/ limited THEN acc ELSE with_edge)

RECURSIVE SetToSeq(_)
SetToSeq(S) ==
  IF S = {} THEN <<>>
  ELSE LET x == CHOOSE y \in S : TRUE IN <<x>> \o SetToSeq(S \ {x})

RECURSIVE AllConnectionEdges(_, _, _)
AllConnectionEdges(db, hs, acc) ==
  IF hs = <<>> THEN acc
  ELSE AllConnectionEdges(db, Tail(hs),
                          ConnectionEdges(db, Head(hs), 1, acc))

\* generate_graph: a node per container of the hosts, then the nodes and
\* edges of the connections.
GenerateGraph(db, include_offline, t) ==
  LET hs == SetToSeq(GraphHosts(db, include_offline, t))
      container_nodes ==
        SetToSeq(UNION {{ContainerNode(h, c) : c \in DOMAIN db.containers[h]} :
                          h \in GraphHosts(db, include_offline, t)})
      start == [nodes |-> container_nodes, edge_data |-> <<>>,
                external_count |-> 0]
      done == AllConnectionEdges(db, hs, start)
  IN [built |-> TRUE, nodes |-> done.nodes, edges |-> done.edge_data]

\* GET /api/v1/graph
GetGraph(include_offline) ==
  /\ graph' = GenerateGraph(DB, include_offline, now)
  /\ UNCHANGED <<now, storeVars, httpVars, wsVars, raceVars, alertVars,
                 agentVars, sinkVars, notifyVars, matching, captureVars>>

\* ------------------------------------------------------------------------
\* Agent (agent/agent.py, agent/collectors)
\* ------------------------------------------------------------------------
\* NetworkConnection of the agent; pid and process_name are None in both
\* collectors.
NetworkConnection(protocol, lip, lport, rip, rport, state, cid, method) ==
  [protocol |-> protocol, local_ip |-> lip, local_port |-> lport,
   remote_ip |-> rip, remote_port |-> rport, state |-> state,
   container_id |-> cid, source_method |-> method]

\* The deduplication key of _merge_connections.
Key(conn) ==
  <<conn.local_ip, conn.local_port, conn.remote_ip, conn.remote_port,
    conn.protocol>>

\* The dict seen, in insertion order, after the loop over conns: with
\* overwrite the loop does seen[key] = conn, which replaces the value of a
\* key already there and keeps its place; without it the loop skips a key
\* already there.
RECURSIVE PutAll(_, _, _)
PutAll(seen, conns, overwrite) ==
  IF conns = <<>> THEN seen
  ELSE LET conn == Head(conns)
           at == {i \in DOMAIN seen : Key(seen[i]) = Key(conn)}
           next == IF at = {} THEN Append(seen, conn)
                   ELSE IF overwrite
                   THEN [i \in DOMAIN seen |->
                           IF i \in at THEN conn ELSE seen[i]]
                   ELSE seen
       IN PutAll(next, Tail(conns), overwrite)

\* _merge_connections: list(seen.values()).
MergeConnections(proc_net_conns, tcpdump_conns) ==
  PutAll(PutAll(<<>>, proc_net_conns, TRUE), tcpdump_conns, FALSE)

\* Strings the agent takes apart are sequences of characters.
LowerCase ==
  <<"a", "b", "c", "d", "e", "f", "g", "h", "i", "j", "k", "l", "m", "n",
    "o", "p", "q", "r", "s", "t", "u", "v", "w", "x", "y", "z">>
UpperCase ==
  <<"A", "B", "C", "D", "E", "F", "G", "H", "I", "J", "K", "L", "M", "N",
    "O", "P", "Q", "R", "S", "T", "U", "V", "W", "X", "Y", "Z">>

\* str.upper
Upper(s) ==
  [i \in DOMAIN s |->
     IF \E k \in DOMAIN LowerCase : LowerCase[k] = s[i]
     THEN UpperCase[CHOOSE k \in DOMAIN LowerCase : LowerCase[k] = s[i]]
     ELSE s[i]]

\* w in s
Contains(s, w) ==
  \E i \in 0..(Len(s) - Len(w)) : SubSeq(s, i + 1, i + Len(w)) = w

W_PASSWORD == <<"P", "A", "S", "S", "W", "O", "R", "D">>
W_SECRET == <<"S", "E", "C", "R", "E", "T">>
W_KEY == <<"K", "E", "Y">>
W_TOKEN == <<"T", "O", "K", "E", "N">>
SecretWords == <<W_PASSWORD, W_SECRET, W_KEY, W_TOKEN>>
HIDDEN == <<"*", "*", "*", "H", "I", "D", "D", "E", "N", "*", "*", "*">>

\* any(secret in key.upper() for secret in [...])
IsSecretKey(key) ==
  \E k \in DOMAIN SecretWords : Contains(Upper(key), SecretWords[k])

\* env.split("=", 1) of an entry that holds "=".
EqualsAt(env) == CHOOSE i \in DOMAIN env :
                   env[i] = "=" /\ \A j \in 1..(i - 1) : env[j] # "="
EnvKey(env) == SubSeq(env, 1, EqualsAt(env) - 1)
EnvValue(env) == SubSeq(env, EqualsAt(env) + 1, Len(env))

\* The environment dict of _parse_container: an entry without "=" is left
\* out, the value of a secret key is hidden, and a later entry of a key
\* replaces an earlier one.
RECURSIVE ParseEnvironment(_, _)
ParseEnvironment(environment, env_list) ==
  IF env_list = <<>> THEN environment
  ELSE LET env == Head(env_list)
           next ==
             IF \E i \in DOMAIN env : env[i] = "="
             THEN LET key == EnvKey(env)
                      value == IF IsSecretKey(key) THEN HIDDEN
                               ELSE EnvValue(env)
                  IN [k \in DOMAIN environment \cup {key} |->
                        IF k = key THEN value ELSE environment[k]]
             ELSE environment
       IN ParseEnvironment(next, Tail(env_list))

\* ParseEnvironment with no key taken as secret (a variant the check of C14
\* tells apart).
RECURSIVE ParseEnvironmentPlain(_, _)
ParseEnvironmentPlain(environment, env_list) ==
  IF env_list = <<>> THEN environment
  ELSE LET env == Head(env_list)
           next ==
             IF \E i \in DOMAIN env : env[i] = "="
             THEN [k \in DOMAIN environment \cup {EnvKey(env)} |->
                     IF k = EnvKey(env) THEN EnvValue(env)
                     ELSE environment[k]]
             ELSE environment
       IN ParseEnvironmentPlain(next, Tail(env_list))

ParseContainerPlain(c) ==
  [id |-> c.id, environment |-> ParseEnvironmentPlain(<<>>, c.Env)]

\* _parse_container, for the id and the environment of a container.
ParseContainer(c) ==
  [id |-> c.id, environment |-> ParseEnvironment(<<>>, c.Env)]

\* What the collectors read on the host in a tick: the connections of
\* /proc/net, those of the packet capture, and the docker containers.
Sources(proc_net, tcpdump, docker) ==
  [proc_net |-> proc_net, tcpdump |-> tcpdump, docker |-> docker]
NoSources == Sources(<<>>, <<>>, <<>>)

\* The messages run_once leaves in last_error.
SEND_FAILED == "Echec envoi rapport au backend"
RAISED == "str(e)"

NoAgentReport ==
  [built |-> FALSE, connections |-> <<>>, containers |-> <<>>, error |-> ""]

\* collect: the report of the tick, with the error of the tick before.
Collect(src, err) ==
  [built |-> TRUE,
   connections |-> MergeConnections(src.proc_net, src.tcpdump),
   containers |-> [i \in DOMAIN src.docker |-> ParseContainer(src.docker[i])],
   error |-> err]

AgentStart(src) ==
  /\ sources = src
  /\ last_error = ""
  /\ agent_report = NoAgentReport
  /\ ticks = <<>>

\* last_error without the reset of collect (a variant the check of C15
\* tells apart).
LastErrorKept(err, collected, post) ==
  IF ~collected THEN RAISED
  ELSE CASE post = "ok" -> err
         [] post = "failed" -> SEND_FAILED
         [] OTHER -> RAISED

\* last_error at the end of run_once: collect resets it once it is in the
\* report, and a failure of the tick sets it.
LastErrorAfter(err, collected, post) ==
  IF ~collected THEN RAISED
  ELSE CASE post = "ok" -> ""
         [] post = "failed" -> SEND_FAILED
         [] OTHER -> RAISED

\* run_once: collect, which puts last_error into the report and clears it,
\* then one POST of the report.  collected is FALSE when a collector
\* raises; post is "ok" for an answer 200, "failed" for another answer or a
\* httpx.RequestError, "raised" for any other exception.
RunOnce(collected, post) ==
  /\ Len(ticks) < MaxAgentTicks
  /\ last_error' = LastErrorAfter(last_error, collected, post)
  /\ IF collected
     THEN /\ agent_report' = Collect(sources, last_error)
          /\ ticks' = Append(ticks, [built |-> TRUE, error |-> last_error,
                                     posts |-> 1, delivered |-> post = "ok",
                                     failure |-> last_error'])
     ELSE /\ ticks' = Append(ticks, [built |-> FALSE, error |-> "",
                                     posts |-> 0, delivered |-> FALSE,
                                     failure |-> last_error'])
          /\ UNCHANGED agent_report
  /\ UNCHANGED <<now, storeVars, httpVars, wsVars, raceVars, alertVars,
                 sources, sinkVars, notifyVars, graph, matching, captureVars>>

\* ------------------------------------------------------------------------
\* TcpdumpCollector (agent/collectors/tcpdump_collector.py)
\* ------------------------------------------------------------------------
\* time.time() of the agent: the clock, in seconds after StartTime.
StartTime == 100
TimeTime == StartTime + now

CaptureIds == {"c1", "c2"}

\* The collector after __init__, with the progress of the collect call it
\* is in: the targets, the thread being joined and since when, and the
\* dict results in the order of its insertions.
TcpdumpCollector(mode, capture_interval, is_available) ==
  [mode |-> mode, capture_duration |-> 1,
   capture_interval |-> capture_interval,
   max_packets_per_container |-> 2, is_available |-> is_available,
   last_capture_time |-> 0, cached_connections |-> <<>>,
   pc |-> "idle", call_at |-> 0, containers |-> <<>>, targets |-> <<>>,
   joining |-> 0, join_started |-> 0, results |-> <<>>]

NoWorker ==
  [state |-> "none", started |-> 0, ended |-> 0, lines |-> <<>>,
   killed |-> FALSE]

CaptureStart ==
  /\ collector = TcpdumpCollector("intermittent", 600, TRUE)
  /\ workers = [c \in CaptureIds |-> NoWorker]
  /\ calls = <<>>

\* A ContainerInfo as collect is given it; pid 0 is a container whose pid
\* docker does not give.
CaptureContainer(id, status, pid) == [id |-> id, status |-> status, pid |-> pid]

\* A line of the output of tcpdump: "IP src.port > dst.port: tcp|UDP ...".
TcpdumpLine(protocol, src_ip, src_port, dst_ip, dst_port) ==
  [protocol |-> protocol, src_ip |-> src_ip, src_port |-> src_port,
   dst_ip |-> dst_ip, dst_port |-> dst_port]

\* The hard limit of a capture thread on its tcpdump, a second later (a
\* variant of WorkerLimit).
WorkerLimitLate(capture_duration) == capture_duration + 6

\* communicate(timeout=self.capture_duration + 5)
WorkerLimit(capture_duration) == capture_duration + 5

\* t.join(timeout=self.capture_duration + 10)
JoinTimeout(capture_duration) == capture_duration + 10

\* should_capture without the interval (a variant of ShouldCapture).
ShouldCaptureAlways(c, t) == TRUE

\* should_capture
ShouldCapture(c, t) ==
  c.mode = "active" \/ t - c.last_capture_time >= c.capture_interval

\* _prepare_targets: the running containers whose pid docker gives.
PrepareTargets(cs) ==
  LET kept == SelectSeq(cs, LAMBDA c : c.status = "running" /\ c.pid > 0)
  IN [i \in DOMAIN kept |-> kept[i].id]

\* _parse_tcpdump_line: no connection (<<>>) for a line between two
\* addresses of 127.0.0.0/8.
ParseTcpdumpLine(line, container_id) ==
  IF line.src_ip[2] = 127 /\ line.dst_ip[2] = 127 THEN <<>>
  ELSE <<NetworkConnection(line.protocol, line.src_ip, line.src_port,
                           line.dst_ip, line.dst_port, "ESTABLISHED",
                           container_id, "tcpdump")>>

\* The loop of _capture_container over the lines of the output: the
\* connections whose key has not been seen.
RECURSIVE ParseOutput(_, _, _)
ParseOutput(lines, container_id, conns) ==
  IF lines = <<>> THEN conns
  ELSE LET conn == ParseTcpdumpLine(Head(lines), container_id)
           new == conn # <<>>
                    /\ \A i \in DOMAIN conns : Key(conns[i]) # Key(conn[1])
       IN ParseOutput(Tail(lines), container_id,
                      IF new THEN conns \o conn ELSE conns)

\* all_connections: the values of results, one after the other.
RECURSIVE AllConnections(_)
AllConnections(results) ==
  IF results = <<>> THEN <<>>
  ELSE Head(results).connections \o AllConnections(Tail(results))

CollectCall(at, given, captured, result) ==
  [at |-> at, returned |-> TimeTime, containers |-> given,
   captured |-> captured, result |-> result]

\* collect, up to its return or to the start of the capture threads.
TcpdumpCollect(given) ==
  /\ collector.pc = "idle"
  /\ Len(calls) < MaxCalls
  /\ IF ~collector.is_available \/ given = <<>>
     THEN /\ calls' = Append(calls, CollectCall(TimeTime, given, FALSE,
                                                <<>>))
          /\ UNCHANGED <<collector, workers>>
     ELSE IF ~ShouldCapture(collector, TimeTime)
     THEN /\ calls' = Append(calls,
                             CollectCall(TimeTime, given, FALSE,
                                         collector.cached_connections))
          /\ UNCHANGED <<collector, workers>>
     ELSE LET targets == PrepareTargets(given)
          IN IF targets = <<>>
             THEN /\ collector' = [collector EXCEPT
                                     !.last_capture_time = TimeTime]
                  /\ calls' = Append(calls, CollectCall(TimeTime, given,
                                                        FALSE, <<>>))
                  /\ UNCHANGED workers
             ELSE /\ collector' = [collector EXCEPT
                                     !.last_capture_time = TimeTime,
                                     !.pc = "capturing",
                                     !.call_at = TimeTime,
                                     !.containers = given,
                                     !.targets = targets,
                                     !.joining = 1,
                                     !.join_started = TimeTime,
                                     !.results = <<>>]
                  /\ workers' =
                       [c \in CaptureIds |->
                          IF \E i \in DOMAIN targets : targets[i] = c
                          THEN [NoWorker EXCEPT !.state = "running",
                                                !.started = TimeTime]
                          ELSE NoWorker]
                  /\ UNCHANGED calls
  /\ UNCHANGED <<now, storeVars, httpVars, wsVars, raceVars, alertVars,
                 agentVars, sinkVars, notifyVars, graph, matching>>

\* The end of _capture_container: communicate has returned the output,
\* the thread parses it and puts the connections in results.
WorkerEnds(c, lines, killed) ==
  /\ workers' = [workers EXCEPT ![c] =
                   [@ EXCEPT !.state = "done", !.ended = TimeTime,
                             !.lines = lines, !.killed = killed]]
  /\ collector' =
       IF collector.pc = "capturing"
       THEN [collector EXCEPT !.results =
               Append(@, [container_id |-> c,
                          connections |-> ParseOutput(lines, c, <<>>)])]
       ELSE collector
  /\ UNCHANGED <<now, storeVars, httpVars, wsVars, raceVars, alertVars,
                 agentVars, sinkVars, notifyVars, graph, matching, calls>>

\* tcpdump prints a packet; with the packet of -c it exits.
PacketSeen(c, line) ==
  /\ workers[c].state = "running"
  /\ Len(workers[c].lines) < collector.max_packets_per_container
  /\ IF Len(workers[c].lines) + 1 = collector.max_packets_per_container
     THEN WorkerEnds(c, Append(workers[c].lines, line), FALSE)
     ELSE /\ workers' = [workers EXCEPT ![c].lines = Append(@, line)]
          /\ UNCHANGED <<now, storeVars, httpVars, wsVars, raceVars,
                         alertVars, agentVars, sinkVars, notifyVars, graph,
                         matching, collector, calls>>

\* tcpdump exits by itself before the packet of -c.
TcpdumpExits(c) ==
  /\ workers[c].state = "running"
  /\ WorkerEnds(c, workers[c].lines, FALSE)

\* TimeoutExpired: process.kill(), and communicate returns what tcpdump
\* had printed.
CaptureTimeout(c) ==
  /\ workers[c].state = "running"
  /\ TimeTime - workers[c].started >= WorkerLimit(collector.capture_duration)
  /\ WorkerEnds(c, workers[c].lines, TRUE)

\* t.join returns, the thread having ended or the timeout of the join
\* being over; after the last join collect gathers the results, caches
\* them and returns them.
JoinThread ==
  /\ collector.pc = "capturing"
  /\ LET c == collector.targets[collector.joining]
         all_connections == AllConnections(collector.results)
     IN /\ \/ workers[c].state = "done"
           \/ TimeTime - collector.join_started
                >= JoinTimeout(collector.capture_duration)
        /\ IF collector.joining < Len(collector.targets)
           THEN /\ collector' = [collector EXCEPT !.joining = @ + 1,
                                                  !.join_started = TimeTime]
                /\ UNCHANGED calls
           ELSE /\ collector' = [collector EXCEPT
                                   !.pc = "idle",
                                   !.cached_connections = all_connections]
                /\ calls' = Append(calls,
                                   CollectCall(collector.call_at,
                                               collector.containers, TRUE,
                                               all_connections))
  /\ UNCHANGED <<now, storeVars, httpVars, wsVars, raceVars, alertVars,
                 agentVars, sinkVars, notifyVars, graph, matching, workers>>

\* A second passes: no tcpdump is at the limit of its thread, and the
\* thread collect is joining runs on, the timeout of the join not over.
CaptureClock(limit) ==
  /\ \A c \in CaptureIds :
       workers[c].state = "running"
       => TimeTime - workers[c].started
            < WorkerLimit(collector.capture_duration)
  /\ collector.pc = "capturing"
     => /\ workers[collector.targets[collector.joining]].state # "done"
        /\ TimeTime - collector.join_started
             < JoinTimeout(collector.capture_duration)
  /\ Advance(1, limit)

\* ------------------------------------------------------------------------
\* AlertService._matches_pattern (services/alert_service.py)
\* ------------------------------------------------------------------------
\* Values and patterns are sequences of one-character strings; NONE stands
\* for the pattern None (no string has this element).
NONE == <<"None">>
NoMatching == [value |-> <<>>, pattern |-> NONE, done |-> FALSE,
               result |-> FALSE]
MatchingStart == matching = NoMatching

\* pattern.replace("*", ".*")
RECURSIVE ReplaceStar(_)
ReplaceStar(p) ==
  IF p = <<>> THEN <<>>
  ELSE (IF Head(p) = "*" THEN <<".", "*">> ELSE <<Head(p)>>)
         \o ReplaceStar(Tail(p))

\* re.error of the compilation: a * with nothing to repeat (at the start or
\* after an anchor) or after another * (multiple repeat).
ReError(p) ==
  \E i \in DOMAIN p :
    p[i] = "*" /\ (i = 1 \/ p[i - 1] \in {"*", "^", "$"})

\* One character of a compiled pattern against one character of the value,
\* under re.IGNORECASE: . is any character, any other one is itself in
\* either case.
CharMatches(pc, vc) == pc = "." \/ Upper(<<pc>>) = Upper(<<vc>>)

\* re.match of the pattern from its character i on against the value from
\* its character j on: ^ holds at the start of the value, $ at its end, a
\* character followed by * takes any number of characters it matches, and
\* the match may end anywhere in the value.
RECURSIVE ReMatchAt(_, _, _, _)
ReMatchAt(p, i, v, j) ==
  IF i > Len(p) THEN TRUE
  ELSE LET star == i < Len(p) /\ p[i + 1] = "*"
           next == IF star THEN i + 2 ELSE i + 1
       IN IF p[i] = "^" THEN j = 1 /\ ReMatchAt(p, next, v, j)
          ELSE IF p[i] = "$" THEN j = Len(v) + 1 /\ ReMatchAt(p, next, v, j)
          ELSE IF star
          THEN \E k \in j..(Len(v) + 1) :
                 /\ \A m \in j..(k - 1) : CharMatches(p[i], v[m])
                 /\ ReMatchAt(p, next, v, k)
          ELSE /\ j <= Len(v)
               /\ CharMatches(p[i], v[j])
               /\ ReMatchAt(p, next, v, j + 1)

\* bool(re.match(pattern, value, re.IGNORECASE)), or value == pattern when
\* the pattern does not compile.
ReMatch(p, v) == IF ReError(p) THEN v = p ELSE ReMatchAt(p, 1, v, 1)

\* _matches_pattern
MatchesPattern(value, pattern) ==
  IF pattern = NONE \/ pattern = <<>> THEN TRUE
  ELSE ReMatch(IF Contains(pattern, <<"*">>) /\ pattern[1] # "^"
               THEN <<"^">> \o ReplaceStar(pattern) \o <<"$">>
               ELSE pattern, value)

\* A call of _matches_pattern with the arguments held in matching.
CallMatchesPattern ==
  /\ ~matching.done
  /\ matching' = [matching EXCEPT
                    !.done = TRUE,
                    !.result = MatchesPattern(matching.value,
                                              matching.pattern)]
  /\ UNCHANGED <<now, storeVars, httpVars, wsVars, raceVars, alertVars,
                 agentVars, sinkVars, notifyVars, graph, captureVars>>

\* ------------------------------------------------------------------------
\* Specification of the ingest of reports with varied inventories
\* ------------------------------------------------------------------------
ContLists == SeqsUpTo(ContRecords, MaxContainers)
MixedConnections == <<CONN_LISTEN, CONN_PEER, CONN_LOCAL6, CONN_ANY, CONN_EST>>
ConnLists ==
  {<<>>, <<CONN_EST>>, <<CONN_LISTEN>>, <<CONN_LOCAL>>, MixedConnections}

\* h2 reported once before the exploration starts.
ReportH2 ==
  Report("h2", Desc(1, 1), <<ContainerInfo("c1", 1, IP_C1)>>, <<"n1">>,
         <<CONN_EST>>, <<>>, FALSE, NoMeta)

\* Reports of h1: every container list with the mixed connection list, and
\* every connection list with one container.
InventoryReports ==
  {Report("h1", Desc(1, 1), cs, <<"n1">>, MixedConnections, <<>>, FALSE, NoMeta) :
     cs \in ContLists}
  \cup
  {Report("h1", Desc(1, 1), <<ContainerInfo("c1", 1, IP_C1)>>, <<"n1">>, conns,
          <<>>, FALSE, NoMeta) : conns \in ConnLists}

InitStore(db) ==
  /\ hosts = db.hosts
  /\ containers = db.containers
  /\ networks = db.networks
  /\ connections = db.connections
  /\ logs = db.logs
  /\ metrics = db.metrics

\* The server with the store db and no request running.
InitServer(db) ==
  /\ now = 0
  /\ InitStore(db)
  /\ resp = NoResp
  /\ lastReport = NoReport
  /\ replayed = FALSE
  /\ active_connections = {}
  /\ notify = IdleNotify
  /\ reqs = [q \in ReqIds |-> NoReq]
  /\ alerts = <<>>
  /\ passes = [p \in PassIds |-> NoPass]
  /\ SinksStart
  /\ ChannelsStart
  /\ GraphStart

\* The server after h2's first report.
InitBackend ==
  /\ InitServer(Ingest(EmptyDB, ReportH2, 0, 0))
  /\ MatchingStart
  /\ CaptureStart

InitIngest == InitBackend /\ AgentStart(NoSources)

NextIngest ==
  \/ \E r \in InventoryReports : ReceiveReport(r, 0)
  \/ Tick

SpecIngest == InitIngest /\ [][NextIngest]_vars

\* The entry of cs that decides the stored fields of container id: the last
\* one carrying that id.
LastEntry(cs, id) ==
  cs[CHOOSE i \in 1..Len(cs) :
       cs[i].id = id /\ \A j \in 1..Len(cs) : cs[j].id = id => j <= i]

\* C1: after a report r of host h is ingested, the stored containers of h
\* are exactly the containers of r keyed by short id: a stored container
\* that r does not list is gone, and every listed one carries r's fields.
C1_ContainersFollowReport ==
  resp.status = 200 =>
    /\ DOMAIN containers[resp.host] = ReportedIds(lastReport.containers)
    /\ \A id \in ReportedIds(lastReport.containers) :
         /\ containers[resp.host][id].ver
              = LastEntry(lastReport.containers, id).ver
         /\ containers[resp.host][id].ip
              = LastEntry(lastReport.containers, id).ip

\* An ingest that deleted, overwrote and inserted containers at once.
C1_Witness ==
  /\ resp.status = 200
  /\ resp.stats.containers_removed > 0
  /\ resp.stats.containers_updated > 0
  /\ resp.stats.containers_added > 0
  /\ "c1" \in DOMAIN containers[resp.host]
  /\ containers[resp.host]["c1"].ver = 2

\* C6: no stored connection is in state LISTEN or targets 127.0.0.1, ::1 or
\* 0.0.0.0, whatever the reports carried.
C6_NoListenNoLoopback ==
  \A h \in HostIds : \A i \in 1..Len(connections[h]) :
    /\ connections[h][i].state # "LISTEN"
    /\ connections[h][i].target_ip \notin FilteredRemoteIps

\* A report carrying listening and loopback connections was ingested and
\* left the two other connections stored.
C6_Witness ==
  /\ resp.status = 200
  /\ lastReport.connections = MixedConnections
  /\ Len(connections[resp.host]) = 2

\* ------------------------------------------------------------------------
\* Specification of the ingest as a transaction: reports with and without
\* logs and metrics, and a failure in any step
\* ------------------------------------------------------------------------
LogLists == {<<>>, <<LOG_GOOD>>, <<LOG_BAD>>}

TxnReports ==
  {Report("h1", Desc(1, 1), <<ContainerInfo("c1", 1, IP_C1)>>, <<"n1">>,
          <<CONN_EST>>, ls, m, NoMeta) : ls \in LogLists, m \in BOOLEAN}

NextTxn ==
  \/ \E r \in TxnReports, failAt \in FailPoints : ReceiveReport(r, failAt)
  \/ Tick

SpecTxn == InitIngest /\ [][NextTxn]_vars

\* C2: steps 1 to 6 of the ingest are one transaction: when one of them
\* fails the request is answered 500 and the stored data is what it was
\* before the request.  (Only Tick changes the clock, so a step that leaves
\* the clock alone is a request.)
C2_FailedIngestPersistsNothing ==
  [][(now' = now /\ resp'.failedStep \in 1..6)
       => (resp'.status = 500 /\ DB' = DB)]_vars

\* A request that failed in step 6 after its logs were stored.
C2_Witness ==
  /\ resp.status = 500
  /\ resp.failedStep = 6
  /\ lastReport.logs = <<LOG_GOOD>>
  /\ lastReport.containers # <<>>
  /\ replayed = FALSE

\* C3 as stated: ingesting the same report a second time in a row leaves
\* the store as the first ingest left it.
C3_ReplayLeavesStoreUnchanged ==
  [][replayed' => DB' = DB]_vars

\* The inventory part of the store: host descriptions, containers, networks
\* and connections, without the last_seen stamps.
Inventory ==
  [hosts |-> [h \in DOMAIN hosts |->
                Desc(hosts[h].hostname, hosts[h].docker_version)],
   containers |->
     [h \in HostIds |->
        [id \in DOMAIN containers[h] |->
           [ver |-> containers[h][id].ver, ip |-> containers[h][id].ip]]],
   networks |-> networks,
   connections |-> connections]

\* C3 amended: ingesting the same report a second time in a row leaves host
\* description, containers, networks and connections as the first ingest
\* left them; the logs and the metric sample of the report are appended
\* once more.
C3_ReplayKeepsInventory ==
  [][replayed' =>
       /\ Inventory' = Inventory
       /\ \A h \in HostIds \ {lastReport.host} :
            logs'[h] = logs[h] /\ metrics'[h] = metrics[h]
       /\ now' = now =>
            /\ logs'[lastReport.host]
                 = StoreLogs(logs[lastReport.host], lastReport.logs)
            /\ Len(metrics'[lastReport.host])
                 = Len(metrics[lastReport.host])
                   + (IF lastReport.host_metrics THEN 1 ELSE 0)]_vars

\* The same report with a container, a log and a metric sample was ingested
\* twice in a row.
C3_Witness ==
  /\ replayed
  /\ lastReport.containers # <<>>
  /\ lastReport.logs = <<LOG_GOOD>>
  /\ lastReport.host_metrics
  /\ Len(logs[lastReport.host]) >= 2

\* ------------------------------------------------------------------------
\* Specification of the ingest with websocket clients coming and going
\* ------------------------------------------------------------------------
NotifyReports ==
  {Report("h1", Desc(1, 1), <<ContainerInfo("c1", 1, IP_C1)>>, <<"n1">>,
          <<CONN_EST>>, <<>>, FALSE, NoMeta)}

NextNotify ==
  \/ \E r \in NotifyReports, failAt \in {0, 6, 7, 8} : ReceiveReport(r, failAt)
  \/ \E ok \in BOOLEAN : SendReturns(ok)
  \/ \E w \in WsIds : WsConnect(w)
  \/ \E w \in WsIds : WsDisconnect(w)
  \/ Tick

SpecNotify == InitIngest /\ [][NextNotify]_vars

\* C4: a failure in the health update (7), the alert evaluation (8) or the
\* realtime notification (9) never fails the ingest: the data of the report
\* is stored and the answer is 200.
C4_LateFailureNeverFailsIngest ==
  resp.failedStep \in 7..9 =>
    /\ resp.status = 200
    /\ resp.host \in DOMAIN hosts
    /\ DOMAIN containers[resp.host] = ReportedIds(lastReport.containers)

\* A request answered 500 by a failure of the notification, with its data
\* stored.
C4_Witness ==
  /\ resp.status = 500
  /\ resp.failedStep = 9
  /\ resp.host \in DOMAIN hosts
  /\ hosts[resp.host].reports_count > 0
  /\ DOMAIN containers[resp.host] = ReportedIds(lastReport.containers)

\* ------------------------------------------------------------------------
\* Two report handlers of one agent running concurrently
\* ------------------------------------------------------------------------
\* Each handler works on its own session and transaction on PostgreSQL at
\* READ COMMITTED.  The session keeps the Host object it loaded; a flush
\* writes the columns whose value differs from the loaded one (last_seen is
\* stamped by every UPDATE), and the row stays locked until the commit.

\* The UPDATE a flush emits for a Host object loaded as old and now new,
\* applied to the committed row.
WriteChanged(dbrow, old, new) ==
  [f \in DOMAIN dbrow |->
     IF f = "last_seen" \/ new[f] # old[f] THEN new[f] ELSE dbrow[f]]

HoldsHostLock(q) ==
  \/ reqs[q].pc = "inventory"
  \/ reqs[q].pc = "metrics" /\ ~reqs[q].committed

HostLockFree(q) == \A p \in ReqIds \ {q} : ~HoldsHostLock(p)

StoreBecomes(d) ==
  /\ hosts' = d.hosts
  /\ containers' = d.containers
  /\ networks' = d.networks
  /\ connections' = d.connections
  /\ logs' = d.logs
  /\ metrics' = d.metrics

\* _update_host up to its await: the select of the Host row.  The object is
\* then modified in the session, or a new one is added.
RaceSelectHost(q, r) ==
  /\ reqs[q].pc = "none"
  /\ reqs' = [reqs EXCEPT ![q] =
       [pc |-> "flush", report |-> r, existed |-> r.host \in DOMAIN hosts,
        loaded |-> IF r.host \in DOMAIN hosts THEN hosts[r.host]
                   ELSE NewHostRow(r.desc, now),
        obj |-> UpdateHost(hosts, r, now)[r.host],
        committed |-> FALSE, status |-> 0]]
  /\ UNCHANGED <<now, storeVars, httpVars, wsVars, alertVars, agentVars,
                 sinkVars, notifyVars, graph, matching, captureVars>>

\* The select of _auto_discover_vm flushes the Host object: the UPDATE waits
\* for the row lock; the INSERT of a host another handler has committed
\* meanwhile violates the primary key, and the handler answers 500.
RaceFlushHost(q) ==
  /\ reqs[q].pc = "flush"
  /\ HostLockFree(q)
  /\ reqs' = [reqs EXCEPT ![q] =
       IF ~reqs[q].existed /\ reqs[q].report.host \in DOMAIN hosts
       THEN [@ EXCEPT !.pc = "done", !.status = 500]
       ELSE [@ EXCEPT !.pc = "inventory"]]
  /\ UNCHANGED <<now, storeVars, httpVars, wsVars, alertVars, agentVars,
                 sinkVars, notifyVars, graph, matching, captureVars>>

\* What the transaction of q holds after steps 1 to 5.
RaceAfterStep5(q) ==
  LET r == reqs[q].report
  IN [AfterStep5(DB, r, now) EXCEPT
        !.hosts = IF reqs[q].existed
                  THEN [hosts EXCEPT ![r.host] =
                          WriteChanged(@, reqs[q].loaded, reqs[q].obj)]
                  ELSE UpdateHost(hosts, r, now)]

\* Steps 2 to 5; store_logs commits when it stored a log.
RaceInventory(q) ==
  /\ reqs[q].pc = "inventory"
  /\ IF FailedStep(DB, reqs[q].report, 0) # 0
     THEN /\ reqs' = [reqs EXCEPT ![q].pc = "done", ![q].status = 500]
          /\ UNCHANGED storeVars
     ELSE IF LogsCommit(reqs[q].report)
     THEN /\ StoreBecomes(RaceAfterStep5(q))
          /\ reqs' = [reqs EXCEPT ![q].pc = "metrics", ![q].committed = TRUE]
     ELSE /\ reqs' = [reqs EXCEPT ![q].pc = "metrics"]
          /\ UNCHANGED storeVars
  /\ UNCHANGED <<now, httpVars, wsVars, alertVars, agentVars, sinkVars,
                 notifyVars, graph, matching, captureVars>>

\* Step 6 and the final commit.
RaceMetrics(q) ==
  /\ reqs[q].pc = "metrics"
  /\ LET r == reqs[q].report
     IN IF reqs[q].committed
        THEN StoreBecomes([DB EXCEPT !.metrics[r.host] =
                                        StoreMetrics(@, r, now)])
        ELSE StoreBecomes([RaceAfterStep5(q) EXCEPT
                             !.metrics[r.host] = StoreMetrics(@, r, now)])
  /\ reqs' = [reqs EXCEPT ![q].pc = "health"]
  /\ UNCHANGED <<now, httpVars, wsVars, alertVars, agentVars, sinkVars,
                 notifyVars, graph, matching, captureVars>>

\* Step 7 on the Host object of the session, then the answer (no rule, no
\* websocket client).
RaceHealth(q) ==
  /\ reqs[q].pc = "health"
  /\ HostLockFree(q)
  /\ LET r == reqs[q].report
     IN hosts' = [hosts EXCEPT ![r.host] =
           WriteChanged(@, reqs[q].obj,
                        UpdateAgentHealthRow(reqs[q].obj, r.agent, now))]
  /\ reqs' = [reqs EXCEPT ![q].pc = "done", ![q].status = 200]
  /\ UNCHANGED <<now, containers, networks, connections, logs, metrics,
                 httpVars, wsVars, alertVars, agentVars, sinkVars,
                 notifyVars, graph, matching, captureVars>>

RaceReport(hn, dv, k, ls) ==
  Report("h1", Desc(hn, dv),
         IF k = 1 THEN <<ContainerInfo("c1", 1, IP_C1)>>
         ELSE <<ContainerInfo("c2", 1, IP_C2)>>,
         <<"n1">>,
         IF k = 1 THEN <<CONN_EST>> ELSE <<CONN_PEER>>,
         ls, FALSE, NoMeta)

RaceReports ==
  {RaceReport(hn, dv, k, ls) :
     hn \in {1, 2}, dv \in {1, 2}, k \in {1, 2}, ls \in {<<>>, <<LOG_GOOD>>}}

\* h1 is unknown, or has reported once.
InitRace ==
  /\ now = 0
  /\ \/ InitStore(Ingest(EmptyDB, ReportH2, 0, 0))
     \/ InitStore(Ingest(Ingest(EmptyDB, ReportH2, 0, 0),
                         RaceReport(1, 1, 1, <<>>), 0, 0))
  /\ resp = NoResp
  /\ lastReport = NoReport
  /\ replayed = FALSE
  /\ active_connections = {}
  /\ notify = IdleNotify
  /\ reqs = [q \in ReqIds |-> NoReq]
  /\ alerts = <<>>
  /\ passes = [p \in PassIds |-> NoPass]
  /\ SinksStart
  /\ ChannelsStart
  /\ GraphStart
  /\ MatchingStart
  /\ CaptureStart
  /\ AgentStart(NoSources)

NextRace ==
  \/ \E q \in ReqIds, r \in RaceReports : RaceSelectHost(q, r)
  \/ \E q \in ReqIds : RaceFlushHost(q)
  \/ \E q \in ReqIds : RaceInventory(q)
  \/ \E q \in ReqIds : RaceMetrics(q)
  \/ \E q \in ReqIds : RaceHealth(q)

SpecRace == InitRace /\ [][NextRace]_vars

\* The stored host description, containers and connections of h1 are those
\* of report r.
StoreMatchesReport(r) ==
  /\ r.host \in DOMAIN hosts
  /\ Desc(hosts[r.host].hostname, hosts[r.host].docker_version) = r.desc
  /\ DOMAIN containers[r.host] = ReportedIds(r.containers)
  /\ \A id \in DOMAIN containers[r.host] :
       containers[r.host][id].ver = LastEntry(r.containers, id).ver
  /\ connections[r.host] = NewConnections(r.connections, r.containers)

BothDone == \A q \in ReqIds : reqs[q].pc = "done"

\* C5: two concurrent reports of one agent are resolved by last writer
\* wins: once both handlers have finished, the stored host row, containers
\* and connections of the agent are those of one of the two reports.
C5_LastWriterWins ==
  BothDone => \E q \in ReqIds : StoreMatchesReport(reqs[q].report)

\* Both handlers answered 200 and the stored host row is the row of neither
\* report.
C5_Witness ==
  /\ BothDone
  /\ \A q \in ReqIds :
       /\ reqs[q].status = 200
       /\ Desc(hosts["h1"].hostname, hosts["h1"].docker_version)
            # reqs[q].report.desc

\* ------------------------------------------------------------------------
\* Specification of the alert rules
\* ------------------------------------------------------------------------
\* h2 goes on reporting; h1, where it is known, has reported once and stays
\* silent.
AlertReports == {ReportH2}

\* The store after n ingests of report r at time 0.
RECURSIVE IngestTimes(_, _, _)
IngestTimes(db, r, n) ==
  IF n = 0 THEN db ELSE Ingest(IngestTimes(db, r, n - 1), r, 0, 0)

InitAlert ==
  /\ now = 0
  /\ \/ InitStore(IngestTimes(EmptyDB, ReportH2, MaxReports - 1))
     \/ InitStore(Ingest(IngestTimes(EmptyDB, ReportH2, MaxReports - 1),
                         RaceReport(1, 1, 1, <<>>), 0, 0))
  /\ resp = NoResp
  /\ lastReport = NoReport
  /\ replayed = FALSE
  /\ active_connections = {}
  /\ notify = IdleNotify
  /\ reqs = [q \in ReqIds |-> NoReq]
  /\ alerts = <<>>
  /\ passes = [p \in PassIds |-> NoPass]
  /\ SinksStart
  /\ ChannelsStart
  /\ GraphStart
  /\ MatchingStart
  /\ CaptureStart
  /\ AgentStart(NoSources)

NextAlert ==
  \/ \E r \in AlertReports : ReceiveReport(r, 0)
  \/ \E p \in PassIds : EvaluateRules(p)
  \/ \E p \in PassIds, h \in HostIds : CheckHost(p, h)
  \/ \E p \in PassIds : CreateAlert(p)
  \/ \E p \in PassIds : ResolveAlerts(p)
  \/ \E i \in 1..MaxAlerts : AcknowledgeAlert(i)
  \/ Advance(Minutes(1), Minutes(MaxMinutes))

SpecAlert == InitAlert /\ [][NextAlert]_vars

\* The same with the manual resolution of alerts.
NextAlertOps ==
  \/ NextAlert
  \/ \E i \in 1..MaxAlerts : ResolveAlert(i)

SpecAlertOps == InitAlert /\ [][NextAlertOps]_vars

\* C7: after rule R with cooldown_minutes = k fired on host H at t0, no
\* second alert row for (R, H) is created in [t0, t0 + k * 60 s), however
\* many evaluation passes run in that interval.
C7_NoSecondAlertInCooldown ==
  \A i, j \in 1..Len(alerts) :
    (/\ i < j
     /\ alerts[i].rule_id = alerts[j].rule_id
     /\ alerts[i].host_id = alerts[j].host_id)
    => alerts[j].triggered_at
         >= alerts[i].triggered_at + Minutes(OfflineRule.cooldown_minutes)

\* Two alert rows of the rule for one host were triggered at the same
\* moment and both are active.
C7_Witness ==
  \E i, j \in 1..Len(alerts) :
    /\ i < j
    /\ alerts[i].host_id = alerts[j].host_id
    /\ alerts[i].triggered_at = alerts[j].triggered_at
    /\ alerts[i].status = "active"
    /\ alerts[j].status = "active"

AllowedTransitions ==
  {<<"active", "acknowledged">>, <<"active", "resolved">>,
   <<"acknowledged", "resolved">>}

\* C8: the status of an alert changes only along active -> acknowledged,
\* active -> resolved and acknowledged -> resolved, whatever evaluation,
\* acknowledge or resolve operation runs; alert rows are only added.
C8_StatusOnlyMovesForward ==
  [][/\ Len(alerts') >= Len(alerts)
     /\ \A i \in 1..Len(alerts) :
          alerts'[i].status # alerts[i].status
          => <<alerts[i].status, alerts'[i].status>> \in AllowedTransitions]_vars

\* An alert that was resolved is acknowledged.
C8_Witness ==
  \E i \in 1..Len(alerts) :
    /\ alerts[i].status = "acknowledged"
    /\ alerts[i].resolved_at >= alerts[i].triggered_at

\* C9: a pass takes as offline the hosts whose last_seen is older than
\* now - timeout_minutes, and when it ends every alert of the rule that was
\* active for a host outside that set is resolved.
C9_BackOnlineResolves ==
  [][\A p \in PassIds :
       /\ (passes[p].pc = "idle" /\ passes'[p].pc # "idle")
          => passes'[p].offline =
               {h \in DOMAIN hosts :
                  hosts[h].last_seen
                    < now - 60 * OfflineRule.timeout_minutes}
       /\ (passes[p].pc # "idle" /\ passes'[p].pc = "idle")
          => \A i \in 1..Len(alerts) :
               (/\ alerts[i].rule_id = OfflineRule.id
                /\ alerts[i].status = "active"
                /\ alerts[i].host_id \notin passes[p].offline)
               => /\ alerts'[i].status = "resolved"
                  /\ alerts'[i].resolved_at = now]_vars

\* A pass has resolved an alert of a host that reported after the alert was
\* triggered.
C9_Witness ==
  \E p \in PassIds, i \in 1..Len(alerts) :
    /\ i \in passes[p].auto_resolved
    /\ alerts[i].status = "resolved"
    /\ alerts[i].resolved_at >= alerts[i].triggered_at
    /\ hosts[alerts[i].host_id].last_seen >= alerts[i].triggered_at

\* ------------------------------------------------------------------------
\* Specification of the agent health
\* ------------------------------------------------------------------------
\* Agent metadata of h1: a report interval of 1 s; a report without error,
\* one with an error, and a slow one.
HealthMetas ==
  {AgentMeta(1, 0, FALSE), AgentMeta(1, 0, TRUE), AgentMeta(1, 950, FALSE)}

HealthReports ==
  {Report("h1", Desc(1, 1), <<ContainerInfo("c1", 1, IP_C1)>>, <<"n1">>,
          <<CONN_EST>>, <<>>, FALSE, meta) : meta \in HealthMetas}

NextHealth ==
  \/ \E r \in HealthReports : ReceiveReport(r, 0)
  \/ CheckAllAgentsHealth
  \/ \E h \in HostIds : ResetAgentStats(h)
  \/ Advance(1, MaxSeconds)

SpecHealth == InitIngest /\ [][NextHealth]_vars

LongSilence ==
  DEFAULT_REPORT_INTERVAL * (UNHEALTHY_THRESHOLD_FACTOR + 1) + MaxSeconds

SweepReports ==
  {ReportH2,
   Report("h1", Desc(1, 1), <<ContainerInfo("c1", 1, IP_C1)>>, <<"n1">>,
          <<CONN_EST>>, <<>>, FALSE, AgentMeta(1, 0, FALSE))}

NextSweep ==
  \/ \E r \in SweepReports : ReceiveReport(r, 0)
  \/ CheckAllAgentsHealth
  \/ Advance(1, MaxSeconds)
  \/ Advance(DEFAULT_REPORT_INTERVAL, LongSilence)

SpecSweep == InitIngest /\ [][NextSweep]_vars

\* The interval the sweep expects of a host, and the silence it measures.
ExpectedInterval(h) ==
  IF hosts[h].report_interval # 0 THEN hosts[h].report_interval ELSE 30

Silence(h) == now - hosts[h].last_seen

\* C11: a sweep leaves every host that was silent for more than 5 intervals
\* (its report_interval, or 30 s) unhealthy with is_online false, and every
\* host silent for more than 2 and at most 5 intervals degraded.
C11_SweepMarksSilentHosts ==
  [][CheckAllAgentsHealth
     => \A h \in DOMAIN hosts :
          /\ Silence(h) > 5 * ExpectedInterval(h)
             => hosts'[h].agent_health = "unhealthy" /\ ~hosts'[h].is_online
          /\ (/\ Silence(h) > 2 * ExpectedInterval(h)
              /\ Silence(h) <= 5 * ExpectedInterval(h))
             => hosts'[h].agent_health = "degraded"]_vars

\* The sweep found h2, which never gave an interval, silent for more than
\* 150 s, after h1 had given its interval.
C11_Witness ==
  /\ "h1" \in DOMAIN hosts
  /\ hosts["h1"].report_interval = 1
  /\ hosts["h2"].report_interval = 0
  /\ hosts["h2"].agent_health = "unhealthy"
  /\ ~hosts["h2"].is_online
  /\ now > 150

\* ------------------------------------------------------------------------
\* Specification of the server left to itself
\* ------------------------------------------------------------------------
\* What goes on in the server when nobody asks for the sweep: lifespan
\* (main.py) initialises the database and starts no task, so there are the
\* reports of the other host, the websocket clients and the clock.  h2
\* reported at 0 s and never again.
NextBackground ==
  \/ \E r \in HealthReports : ReceiveReport(r, 0)
  \/ \E ok \in BOOLEAN : SendReturns(ok)
  \/ \E w \in WsIds : WsConnect(w)
  \/ \E w \in WsIds : WsDisconnect(w)
  \/ Advance(DEFAULT_REPORT_INTERVAL, LongSilence)

\* The clock never stops, and the server goes on with whatever it can do.
SpecBackground ==
  /\ InitIngest
  /\ [][NextBackground]_vars
  /\ WF_vars(Advance(DEFAULT_REPORT_INTERVAL, LongSilence))
  /\ WF_vars(NextBackground)

\* C12: a host that stops reporting is eventually marked unhealthy with
\* is_online false, without a further report of it and without a request
\* for the sweep.
C12_SilentHostEventuallyUnhealthy ==
  <>(hosts["h2"].agent_health = "unhealthy" /\ ~hosts["h2"].is_online)

\* h2 has been silent for more than 5 default intervals and is still online,
\* with the health its last report left.
C12_Witness ==
  /\ now - hosts["h2"].last_seen > 5 * 30
  /\ hosts["h2"].report_interval = 0
  /\ hosts["h2"].is_online
  /\ hosts["h2"].agent_health # "unhealthy"

\* ------------------------------------------------------------------------
\* Specification of the agent merging its connections
\* ------------------------------------------------------------------------
\* /proc/net of two containers: a connection of c1 to c2, and both
\* containers listening on port 80 in their own network namespace.
A_EST ==
  NetworkConnection("tcp", IP_C1, 54322, IP_C2, 5432, "ESTABLISHED", "c1",
                    "proc_net")
A_LISTEN1 ==
  NetworkConnection("tcp", IP_ANY, 80, IP_ANY, 0, "LISTEN", "c1", "proc_net")
A_LISTEN2 ==
  NetworkConnection("tcp", IP_ANY, 80, IP_ANY, 0, "LISTEN", "c2", "proc_net")

\* The packet capture: the connection of c1 to c2 seen in the namespace of
\* c1 and in that of c2, and a DNS query of c1.
D_EST1 ==
  NetworkConnection("tcp", IP_C1, 54322, IP_C2, 5432, "ESTABLISHED", "c1",
                    "tcpdump")
D_EST2 ==
  NetworkConnection("tcp", IP_C1, 54322, IP_C2, 5432, "ESTABLISHED", "c2",
                    "tcpdump")
D_DNS ==
  NetworkConnection("udp", IP_C1, 54400, IP_PUBLIC, 53, "ESTABLISHED", "c1",
                    "tcpdump")

MergeSources ==
  {Sources(P, T, <<>>) :
     P \in SeqsUpTo({A_EST, A_LISTEN1, A_LISTEN2}, MaxCollected),
     T \in SeqsUpTo({D_EST1, D_EST2, D_DNS}, MaxCollected)}

InitMerge == InitBackend /\ \E src \in MergeSources : AgentStart(src)

NextMerge == \E collected \in BOOLEAN : RunOnce(collected, "ok")

SpecMerge == InitMerge /\ [][NextMerge]_vars

Range(f) == {f[i] : i \in DOMAIN f}

\* C13: the merged connections of a report are the proc_net connections
\* together with the tcpdump connections whose key no proc_net connection
\* has.
C13_MergedIsUnion ==
  agent_report.built
  => Range(agent_report.connections)
       = Range(sources.proc_net)
         \cup {t \in Range(sources.tcpdump) :
                 \A c \in Range(sources.proc_net) : Key(t) # Key(c)}

\* A report was built that lacks a proc_net connection.
C13_Witness ==
  /\ agent_report.built
  /\ \E c \in Range(sources.proc_net) :
       c \notin Range(agent_report.connections)

\* ------------------------------------------------------------------------
\* Specification of the agent reading the environment of a container
\* ------------------------------------------------------------------------
V_PLAIN == <<"s", "3", "c">>
V_EQUALS == <<"a", "=", "b">>
K_PATH == <<"P", "A", "T", "H">>
K_PASS_WORD == <<"P", "A", "S", "S", "_", "W", "O", "R", "D">>
K_DB_PASSWORD == <<"D", "B", "_">> \o W_PASSWORD
K_db_password == <<"d", "b", "_", "p", "a", "s", "s", "w", "o", "r", "d">>
K_Api_Key == <<"A", "p", "i", "_", "K", "e", "y">>
K_MONKEY == <<"M", "O", "N">> \o W_KEY
K_TOKENS == W_TOKEN \o <<"S">>

EnvEntry(key, value) == key \o <<"=">> \o value

\* Config.Env entries of docker: secret and plain keys in upper, lower and
\* mixed case, values that hold "=", an empty value, a plain variable whose
\* value is the marker, and entries without "=".
EnvEntries ==
  {EnvEntry(K_PATH, V_PLAIN), EnvEntry(K_PATH, V_EQUALS),
   EnvEntry(K_PATH, HIDDEN), EnvEntry(K_PASS_WORD, V_PLAIN),
   EnvEntry(K_DB_PASSWORD, V_PLAIN), EnvEntry(K_db_password, V_EQUALS),
   EnvEntry(K_Api_Key, V_PLAIN), EnvEntry(K_MONKEY, V_PLAIN),
   EnvEntry(W_SECRET, <<>>), EnvEntry(K_TOKENS, V_PLAIN),
   W_TOKEN, K_PATH}

RedactSources ==
  {Sources(<<>>, <<>>, <<[id |-> "c1", Env |-> env_list]>>) :
     env_list \in SeqsUpTo(EnvEntries, MaxCollected)}

InitRedact == InitBackend /\ \E src \in RedactSources : AgentStart(src)

NextRedact == \E collected \in BOOLEAN : RunOnce(collected, "ok")

SpecRedact == InitRedact /\ [][NextRedact]_vars

\* The entries of a Config.Env list that hold "=", and the value docker gave
\* last for a key.
Assignments(env_list) ==
  {i \in DOMAIN env_list : \E j \in DOMAIN env_list[i] : env_list[i][j] = "="}

LastValue(env_list, key) ==
  LET at == {i \in Assignments(env_list) : EnvKey(env_list[i]) = key}
  IN EnvValue(env_list[CHOOSE i \in at : \A j \in at : j <= i])

\* The keys the redaction is for.
NamesSecret(key) ==
  \E w \in {W_PASSWORD, W_SECRET, W_KEY, W_TOKEN} : Contains(Upper(key), w)

\* C14: the environment of every container of a report holds the keys that
\* docker assigns, each with the marker when the key in upper case contains
\* PASSWORD, SECRET, KEY or TOKEN, and with its own value otherwise; no
\* value of a secret key shows in it.
C14_SecretsAreHidden ==
  agent_report.built
  => \A i \in DOMAIN agent_report.containers :
       LET environment == agent_report.containers[i].environment
           env_list == sources.docker[i].Env
       IN /\ DOMAIN environment
               = {EnvKey(env_list[k]) : k \in Assignments(env_list)}
          /\ \A key \in DOMAIN environment :
               environment[key] = IF NamesSecret(key) THEN HIDDEN
                                  ELSE LastValue(env_list, key)

\* A report holds a container with a hidden secret, given in lower or mixed
\* case, next to a plain variable with its own value.
C14_Witness ==
  /\ agent_report.built
  /\ \E i \in DOMAIN agent_report.containers :
       LET environment == agent_report.containers[i].environment
       IN /\ \E key \in {K_db_password, K_Api_Key} :
               /\ key \in DOMAIN environment
               /\ environment[key] = HIDDEN
          /\ K_PATH \in DOMAIN environment
          /\ environment[K_PATH] = V_EQUALS

\* ------------------------------------------------------------------------
\* Specification of the agent over its ticks
\* ------------------------------------------------------------------------
TickSources == {NoSources, Sources(<<A_EST>>, <<D_DNS>>, <<>>)}

InitTicks == InitBackend /\ \E src \in TickSources : AgentStart(src)

NextTicks ==
  \E collected \in BOOLEAN, post \in {"ok", "failed", "raised"} :
    RunOnce(collected, post)

SpecTicks == InitTicks /\ [][NextTicks]_vars

\* C15: a tick posts its report at most once; the report built at the tick
\* after a failed POST carries the message of that failure, and a report
\* carries an error only when the tick before failed.
C15_FailureReportedOnNextTick ==
  /\ \A n \in DOMAIN ticks :
       /\ ticks[n].posts <= 1
       /\ (ticks[n].built /\ ~ticks[n].delivered) => ticks[n].failure # ""
       /\ ticks[n].built
          => ticks[n].error = IF n = 1 THEN "" ELSE ticks[n - 1].failure
       /\ (ticks[n].built /\ ticks[n].delivered) => ticks[n].failure = ""
  /\ (agent_report.built /\ ticks # <<>> /\ ticks[Len(ticks)].built)
     => agent_report.error = ticks[Len(ticks)].error

\* The POST of a tick failed, the next tick delivered a report with the
\* message, and the tick after that a report without error.
C15_Witness ==
  \E n \in DOMAIN ticks :
    /\ n + 2 \in DOMAIN ticks
    /\ ticks[n].built /\ ~ticks[n].delivered
    /\ ticks[n + 1].delivered /\ ticks[n + 1].error = SEND_FAILED
    /\ ticks[n + 2].built /\ ticks[n + 2].error = ""
    /\ agent_report.error = ""

\* ------------------------------------------------------------------------
\* Specification of the ingest with log sinks
\* ------------------------------------------------------------------------
\* Reports of h1 without logs and with one log line.
ForwardReports ==
  {Report("h1", Desc(1, 1), <<ContainerInfo("c1", 1, IP_C1)>>, <<"n1">>,
          <<CONN_EST>>, ls, FALSE, NoMeta) : ls \in {<<>>, <<LOG_GOOD>>}}

NextForward ==
  \/ \E r \in ForwardReports : ReceiveReport(r, 0)
  \/ \E s \in SinkIds, row \in SinkConfigs : CreateSink(s, row)
  \/ \E s \in SinkIds : ToggleSink(s)
  \/ Tick

SpecForward == InitIngest /\ [][NextForward]_vars

\* C16: when a report with container logs is ingested, every enabled sink
\* whose filters accept logs of it is sent those logs.
C16_IngestedLogsReachSinks ==
  [][\A h \in HostIds :
       (/\ ReportsSent(h)' > ReportsSent(h)
        /\ resp'.status = 200
        /\ lastReport'.logs # <<>>)
       => \A s \in DOMAIN sinks :
            (/\ sinks[s].enabled
             /\ FilterLogs(lastReport'.logs, sinks[s], h) # <<>>)
            => /\ Len(attempts'[s]) = Len(attempts[s]) + 1
               /\ attempts'[s][Len(attempts'[s])].logs
                    = FilterLogs(lastReport'.logs, sinks[s], h)]_vars

\* The logs of a report of h1 are stored while an enabled sink that accepts
\* them was sent nothing.
C16_Witness ==
  /\ resp.status = 200
  /\ lastReport # NoReport
  /\ lastReport.logs # <<>>
  /\ logs["h1"] # <<>>
  /\ \E s \in DOMAIN sinks :
       /\ sinks[s].enabled
       /\ FilterLogs(lastReport.logs, sinks[s], "h1") # <<>>
       /\ attempts[s] = <<>>

\* ------------------------------------------------------------------------
\* Specification of the forwarding to the log sinks
\* ------------------------------------------------------------------------
LOG_C2 == [container_id |-> "c2", stream |-> "stderr"]

NextSinks ==
  \/ \E s \in SinkIds, row \in SinkConfigs : CreateSink(s, row)
  \/ \E s \in SinkIds : ToggleSink(s)
  \/ \E ls \in {<<LOG_GOOD>>, <<LOG_GOOD, LOG_C2>>},
        sent \in [SinkIds -> {"sent", "refused", "raised"}] :
       ForwardLogs(ls, "h1", sent)
  \/ Tick

SpecSinks == InitIngest /\ [][NextSinks]_vars

\* C17: when the send to a sink fails, the errors_count of the sink goes up
\* by one and its last_error and last_error_message are set; the sinks
\* after it are sent their logs all the same.
C17_SinkFailureIsCounted ==
  [][\A s \in DOMAIN sinks :
       Len(attempts'[s]) > Len(attempts[s])
       => /\ attempts'[s][Len(attempts'[s])].sent # "sent"
             => /\ sinks'[s].errors_count = sinks[s].errors_count + 1
                /\ sinks'[s].last_error = now
                /\ sinks'[s].last_error_message # ""
          /\ \A o \in DOMAIN sinks :
               (/\ sinks[o].enabled
                /\ FilterLogs(attempts'[s][Len(attempts'[s])].batch,
                              sinks[o],
                              attempts'[s][Len(attempts'[s])].host_id) # <<>>)
               => Len(attempts'[o]) > Len(attempts[o])]_vars

\* A sink refused a batch and has no error counted, while the other sink
\* was sent its batch.
C17_Witness ==
  \E s \in DOMAIN sinks, o \in DOMAIN sinks :
    /\ s # o
    /\ attempts[s] # <<>>
    /\ attempts[s][Len(attempts[s])].sent = "refused"
    /\ sinks[s].errors_count = 0
    /\ sinks[s].last_error = -1
    /\ attempts[o] # <<>>
    /\ attempts[o][Len(attempts[o])].sent = "sent"
    /\ sinks[o].logs_sent > 0

\* ------------------------------------------------------------------------
\* Specification of the alerts with notification channels
\* ------------------------------------------------------------------------
\* One pass at a time evaluates the rule here.
NextChannels ==
  \/ \E c \in ChannelIds, row \in ChannelConfigs : CreateChannel(c, row)
  \/ \E c \in ChannelIds, enabled \in BOOLEAN : UpdateChannel(c, enabled)
  \/ EvaluateRules("p1")
  \/ \E h \in HostIds : CheckHost("p1", h)
  \/ CreateAlert("p1")
  \/ ResolveAlerts("p1")
  \/ Advance(Minutes(1), Minutes(MaxMinutes))

SpecChannels == InitAlert /\ [][NextChannels]_vars

\* The channels an alert of the rule is for: enabled, and with filters that
\* are empty or hold the severity and the type of the rule.
ToNotify ==
  {c \in DOMAIN channels :
     /\ channels[c].enabled
     /\ channels[c].severity_filter \in {{}, {"warning"}}
     /\ channels[c].rule_type_filter \in {{}, {"host_offline"}}}

\* C18: when an alert fires it is created active, every channel it is for
\* is handed one notification whether or not the send to another channel
\* failed, and notifications_sent holds one record per channel with the
\* outcome of its send, the error of a failed send included.
C18_FailedChannelIsRecorded ==
  [][Len(alerts') > Len(alerts)
     => LET a == alerts'[Len(alerts')]
            recs == a.notifications_sent
            handed == {i \in DOMAIN deliveries' :
                         /\ i > Len(deliveries)
                         /\ deliveries'[i].alert = Len(alerts')}
        IN /\ a.status = "active"
           /\ Len(alerts') = Len(alerts) + 1
           /\ \A c \in ToNotify :
                /\ Cardinality({i \in handed :
                                  deliveries'[i].channel_id = c}) = 1
                /\ Cardinality({i \in DOMAIN recs :
                                  recs[i].channel_id = c}) = 1
           /\ \A i \in handed :
                \E k \in DOMAIN recs :
                  /\ recs[k].channel_id = deliveries'[i].channel_id
                  /\ recs[k].success = deliveries'[i].ok
                  /\ ~deliveries'[i].ok => recs[k].error # ""
           /\ \A k \in DOMAIN recs : recs[k].channel_id \in ToNotify]_vars

\* An active alert records a failed send to one channel and a successful
\* send to the other, whichever came first.
C18_Witness ==
  \E i \in 1..Len(alerts) :
    /\ alerts[i].status = "active"
    /\ Len(alerts[i].notifications_sent) = 2
    /\ ~alerts[i].notifications_sent[1].success
    /\ alerts[i].notifications_sent[1].error # ""
    /\ alerts[i].notifications_sent[2].success
    /\ \E d \in DOMAIN deliveries :
         /\ deliveries[d].alert = i
         /\ ~deliveries[d].ok

\* ------------------------------------------------------------------------
\* Specification of the graph
\* ------------------------------------------------------------------------
\* Connections of container c1 of h2 to n external addresses, with one to
\* container c2 before or after them, or one more to the first address.
ExternalConns(n) ==
  [i \in 1..n |-> ConnectionInfo("ESTABLISHED", IP(8, 8, 8, i), "c1")]

GraphConns ==
  UNION {{ExternalConns(n),
          <<CONN_PEER>> \o ExternalConns(n),
          ExternalConns(n) \o <<CONN_PEER>>,
          ExternalConns(n)
            \o <<ConnectionInfo("ESTABLISHED", IP(8, 8, 8, 1), "c1")>>} :
           n \in 0..MaxExternalIps}

GraphReports ==
  {Report("h2", Desc(1, 1),
          <<ContainerInfo("c1", 1, IP_C1), ContainerInfo("c2", 1, IP_C2)>>,
          <<"n1">>, conns, <<>>, FALSE, NoMeta) : conns \in GraphConns}

InitGraph ==
  /\ \E r \in GraphReports : InitServer(Ingest(EmptyDB, r, 0, 0))
  /\ MatchingStart
  /\ CaptureStart
  /\ AgentStart(NoSources)

NextGraph ==
  \/ \E include_offline \in BOOLEAN : GetGraph(include_offline)
  \/ Tick

SpecGraph == InitGraph /\ [][NextGraph]_vars

ExternalNodes == {k \in DOMAIN graph.nodes : graph.nodes[k][1] = "external"}

\* C19: a graph holds at most 20 external nodes, each once, and an edge to
\* an external address only when the address has its node; the addresses
\* beyond the limit have neither node nor edge.
C19_AtMostTwentyExternalNodes ==
  graph.built
  => /\ Cardinality(ExternalNodes) <= 20
     /\ \A j, k \in ExternalNodes : graph.nodes[j] = graph.nodes[k] => j = k
     /\ \A e \in DOMAIN graph.edges :
          \E k \in DOMAIN graph.nodes : graph.nodes[k] = graph.edges[e][2]
     /\ Cardinality({connections["h2"][i].target_ip :
                       i \in DOMAIN connections["h2"]} \ {IP_C2}) > 20
        => Cardinality(ExternalNodes) = 20

\* The graph of a host with connections to more than 20 external addresses
\* and to a container: 20 external nodes, and the edge to the container.
C19_Witness ==
  /\ graph.built
  /\ Cardinality(ExternalNodes) = 20
  /\ Cardinality({connections["h2"][i].target_ip :
                    i \in DOMAIN connections["h2"]} \ {IP_C2}) > 20
  /\ \E e \in DOMAIN graph.edges :
       graph.edges[e] = <<ContainerNode("h2", "c1"), ContainerNode("h2", "c2")>>

\* ------------------------------------------------------------------------
\* Specification of broadcasts while websocket clients connect
\* ------------------------------------------------------------------------
\* Clients connect while reports come in; no client leaves by itself, so
\* the set shrinks only at the end of a broadcast, by the removal of the
\* connections whose send_text raised.  While a broadcast runs, every
\* connection visited so far was in the set when the loop began (the
\* iterator hands out a connection only while the set has the size it had
\* then), and every connection of that set is still connected.
ChurnIds == WsIds \cup {"w3"}

NextChurn ==
  \/ \E r \in NotifyReports : ReceiveReport(r, 0)
  \/ \E ok \in BOOLEAN : SendReturns(ok)
  \/ \E w \in ChurnIds : WsConnect(w)
  \/ Tick

SpecChurn == InitIngest /\ [][NextChurn]_vars

\* The step that ends a broadcast: the loop is left, normally or by an
\* exception.
BroadcastEnds ==
  /\ notify.pc \in {"host_update", "graph_refresh"}
  /\ notify'.pc # notify.pc

\* C20: clients connecting while a broadcast is in progress never make it
\* fail, and every subscriber connected from its start to its end has been
\* sent the message: the broadcast ends without an error of step 9, and
\* the subscribers it has sent to are as many as the set held at its start.
C20_BroadcastWorksOnSnapshot ==
  [][BroadcastEnds
     => /\ ~(resp'.status = 500 /\ resp'.failedStep = 9)
        /\ Cardinality(notify.visited) = notify.size]_vars

\* A broadcast in progress over two subscribers, one of them not yet sent
\* to, while a third client has connected.
C20_Witness ==
  /\ notify.pc = "host_update"
  /\ notify.size = 2
  /\ Cardinality(notify.visited) = 1
  /\ Cardinality(active_connections) = 3

\* ------------------------------------------------------------------------
\* Specification of two concurrent report handlers while the clock runs
\* ------------------------------------------------------------------------
\* A handler stamps last_seen with the time at which it modifies its Host
\* object (RaceSelectHost, RaceHealth); its UPDATE reaches the row when the
\* row lock is free, which may be after the other handler has stamped and
\* written a later time.
NextRaceClock ==
  \/ \E q \in ReqIds, r \in RaceReports : RaceSelectHost(q, r)
  \/ \E q \in ReqIds : RaceFlushHost(q)
  \/ \E q \in ReqIds : RaceInventory(q)
  \/ \E q \in ReqIds : RaceMetrics(q)
  \/ \E q \in ReqIds : RaceHealth(q)
  \/ Tick

SpecRaceClock == InitRace /\ [][NextRaceClock]_vars

\* C21: the last_seen of a host never decreases: in every step, each host
\* keeps a last_seen greater than or equal to the one it had.
C21_LastSeenNeverDecreases ==
  [][\A h \in DOMAIN hosts :
       h \in DOMAIN hosts' => hosts'[h].last_seen >= hosts[h].last_seen]_vars

\* A handler about to write the stamp of its Host object over a later
\* last_seen, committed meanwhile by the other handler.
C21_Witness ==
  \E q \in ReqIds :
    /\ reqs[q].pc = "inventory"
    /\ reqs[q].existed
    /\ "h1" \in DOMAIN hosts
    /\ reqs[q].obj.last_seen < hosts["h1"].last_seen

\* ------------------------------------------------------------------------
\* Specification of the pattern matching of the filters
\* ------------------------------------------------------------------------
PatternChars == {"a", "B", "*", "^", "."}
ValueChars == {"a", "A", "b", "^", "*"}
Patterns == {NONE} \cup SeqsUpTo(PatternChars, MaxPatternLen)
Values == SeqsUpTo(ValueChars, MaxValueLen)

InitPattern ==
  /\ InitServer(Ingest(EmptyDB, ReportH2, 0, 0))
  /\ AgentStart(NoSources)
  /\ CaptureStart
  /\ \E v \in Values, p \in Patterns :
       matching = [NoMatching EXCEPT !.value = v, !.pattern = p]

NextPattern == CallMatchesPattern

SpecPattern == InitPattern /\ [][NextPattern]_vars

\* The pattern is None or empty.
NoPattern == matching.pattern = NONE \/ matching.pattern = <<>>

\* The pattern as a glob: its * made .* and the whole anchored with ^ and $.
AsGlob(pattern) == <<"^">> \o ReplaceStar(pattern) \o <<"$">>

\* C22: an empty or null pattern matches every value; a pattern that
\* starts with ^ matches as the regex it is, whatever the case; any other
\* pattern matches as a glob, its * made .* and the whole anchored with ^
\* and $, so that it has to match the whole value, whatever the case.
C22_PatternSemantics ==
  matching.done =>
    IF NoPattern THEN matching.result
    ELSE IF matching.pattern[1] = "^"
    THEN ReError(matching.pattern)
           \/ matching.result = ReMatchAt(matching.pattern, 1,
                                          matching.value, 1)
    ELSE matching.result = ReMatchAt(AsGlob(matching.pattern), 1,
                                     matching.value, 1)

\* The pattern "a", without * and without ^, matched against the longer
\* value "ab".
C22_Witness ==
  /\ matching.done
  /\ matching.pattern = <<"a">>
  /\ matching.value = <<"a", "b">>
  /\ matching.result

\* ------------------------------------------------------------------------
\* Specification of the score of the reports
\* ------------------------------------------------------------------------
\* Reports of h1 with and without an error, with and without a report
\* interval, and with durations at and over nine tenths of the interval
\* (900 ms of 1 s, 27000 ms of the default of 30 s).
ScoreMetas ==
  {AgentMeta(i, d, e) :
     i \in {0, 1}, d \in {0, 900, 901, 27000, 27001}, e \in BOOLEAN}

ScoreReports ==
  {Report("h1", Desc(1, 1), <<ContainerInfo("c1", 1, IP_C1)>>, <<"n1">>,
          <<CONN_EST>>, <<>>, FALSE, meta) : meta \in ScoreMetas}

NextScore ==
  \/ \E r \in ScoreReports : ReceiveReport(r, 0)
  \/ \E h \in HostIds : ResetAgentStats(h)
  \/ Tick

SpecScore == InitIngest /\ [][NextScore]_vars

\* The step is the ingest of a report of host h, answered 200.
Reported(h) ==
  /\ resp'.status = 200
  /\ lastReport'.host = h
  /\ h \in DOMAIN hosts'
  /\ hosts'[h].reports_count =
       (IF h \in DOMAIN hosts THEN hosts[h].reports_count ELSE 0) + 1

LINE_TCP == TcpdumpLine("tcp", IP_C1, 54322, IP_C2, 5432)
LINE_LOOP == TcpdumpLine("tcp", IP_LOOPBACK4, 40000, IP_LOOPBACK4, 8080)
CaptureLines == {LINE_TCP, LINE_LOOP}

CaptureLists ==
  {<<>>,
   <<CaptureContainer("c1", "running", 11)>>,
   <<CaptureContainer("c1", "exited", 0)>>}

InitCollector(modes, capture_interval, availabilities) ==
  /\ InitServer(Ingest(EmptyDB, ReportH2, 0, 0))
  /\ MatchingStart
  /\ AgentStart(NoSources)
  /\ \E mode \in modes, is_available \in availabilities :
       collector = TcpdumpCollector(mode, capture_interval, is_available)
  /\ workers = [c \in CaptureIds |-> NoWorker]
  /\ calls = <<>>

InitCapture == InitCollector({"intermittent", "active"}, 3, BOOLEAN)

NextCapture ==
  \/ \E given \in CaptureLists : TcpdumpCollect(given)
  \/ \E line \in CaptureLines : PacketSeen("c1", line)
  \/ TcpdumpExits("c1")
  \/ JoinThread
  \/ CaptureClock(MaxCaptureSeconds)

SpecCapture == InitCapture /\ [][NextCapture]_vars

\* The captures before call k, and the most recent of them.
CapturesBefore(k) == {j \in 1..(k - 1) : calls[j].captured}
LastCapture(k) ==
  CHOOSE j \in CapturesBefore(k) : \A i \in CapturesBefore(k) : i <= j

\* Call k began before capture_interval had passed since the most recent
\* capture began.
EarlyCall(k) ==
  /\ CapturesBefore(k) # {}
  /\ calls[k].at - calls[LastCapture(k)].at < collector.capture_interval

WorkerList ==
  <<CaptureContainer("c1", "running", 11),
    CaptureContainer("c2", "running", 12)>>

InitWorkers == InitCollector({"intermittent"}, 100, {TRUE})

NextWorkers ==
  \/ TcpdumpCollect(WorkerList)
  \/ \E c \in CaptureIds : PacketSeen(c, LINE_TCP)
  \/ \E c \in CaptureIds : TcpdumpExits(c)
  \/ \E c \in CaptureIds : CaptureTimeout(c)
  \/ JoinThread
  \/ CaptureClock(MaxWorkerSeconds)

SpecWorkers == InitWorkers /\ [][NextWorkers]_vars

\* The connections the capture in container c has been returning: in the
\* dict results while collect waits, and in what collect returned.
Returned(c) ==
  IF collector.pc = "capturing"
  THEN \E i \in DOMAIN collector.results :
         /\ collector.results[i].container_id = c
         /\ collector.results[i].connections
              = ParseOutput(workers[c].lines, c, <<>>)
  ELSE /\ CapturesBefore(Len(calls) + 1) # {}
       /\ LET result == calls[LastCapture(Len(calls) + 1)].result
              conns == ParseOutput(workers[c].lines, c, <<>>)
          IN \A i \in DOMAIN conns :
               \E j \in DOMAIN result : result[j] = conns[i]

IP_PRIVATE_C == IP(10, 0, 0, 5)

\* Remote addresses on both sides of every bound of the private ranges,
\* and the address of a container.
ClassifyIps ==
  {IP(9, 255, 255, 255), IP(10, 0, 0, 1), IP_PRIVATE_C, IP(11, 0, 0, 1),
   IP(172, 15, 255, 255), IP(172, 16, 0, 1), IP_C1, IP(172, 31, 255, 255),
   IP(172, 32, 0, 1), IP(192, 167, 0, 1), IP(192, 168, 1, 1),
   IP(100, 63, 255, 255), IP(100, 64, 0, 1), IP(100, 65, 0, 1),
   IP(100, 100, 1, 1), IP(100, 127, 255, 255), IP(100, 128, 0, 1),
   IP_PUBLIC}

ClassifyConns ==
  {<<ConnectionInfo("ESTABLISHED", ip, "")>> : ip \in ClassifyIps}
  \cup
  {<<ConnectionInfo("ESTABLISHED", ip, "c1"), CONN_EST>> : ip \in ClassifyIps}

ClassifyReports ==
  {Report("h1", Desc(1, 1), cs, <<"n1">>, conns, <<>>, FALSE, NoMeta) :
     cs \in {<<ContainerInfo("c1", 1, IP_C1)>>,
             <<ContainerInfo("c1", 1, IP_C1),
               ContainerInfo("c2", 1, IP_PRIVATE_C)>>},
     conns \in ClassifyConns}

NextClassify == \E r \in ClassifyReports : ReceiveReport(r, 0)

SpecClassify == InitIngest /\ [][NextClassify]_vars

\* 10.0.0.0/8, 172.16.0.0/12 and 192.168.0.0/16.
InRfc1918(ip) ==
  /\ ip[1] = 4
  /\ \/ ip[2] = 10
     \/ ip[2] = 172 /\ ip[3] \in 16..31
     \/ ip[2] = 192 /\ ip[3] = 168

\* 100.64.0.0/10: 100.64.0.0 to 100.127.255.255.
InCgnat(ip) == ip[1] = 4 /\ ip[2] = 100 /\ ip[3] \in 64..127

\* C26: each connection stored by an ingest is internal when its remote
\* address is the address of a container of the reporting host, otherwise
\* cross-host when the remote address lies in 10.0.0.0/8, 172.16.0.0/12,
\* 192.168.0.0/16 or 100.64.0.0/10, otherwise external.
C26_ConnectionsClassified ==
  resp.status = 200 =>
    \A i \in DOMAIN connections[lastReport.host] :
      LET row == connections[lastReport.host][i]
          ours == {lastReport.containers[k].ip :
                     k \in DOMAIN lastReport.containers}
      IN row.connection_type =
           IF row.target_ip \in ours THEN "internal"
           ELSE IF InRfc1918(row.target_ip) \/ InCgnat(row.target_ip)
                THEN "cross-host"
           ELSE "external"

\* A connection to 100.100.1.1, an address of 100.64.0.0/10 that no
\* container of the host holds, was stored.
C26_Witness ==
  /\ resp.status = 200
  /\ lastReport.host = "h1"
  /\ \E i \in DOMAIN connections["h1"] :
       /\ connections["h1"][i].target_ip = IP(100, 100, 1, 1)
       /\ connections["h1"][i].connection_type = "external"

\* ------------------------------------------------------------------------
\* The alerts of one host under overlapping passes and acknowledgement
\* ------------------------------------------------------------------------
ActiveAlerts(h) == GetActiveAlert(alerts, OfflineRule.id, h)

\* C27: at any time there is at most one active alert of the host_offline
\* rule per host, whatever sequence or interleaving of evaluation passes
\* has run.
C27_AtMostOneActiveAlert ==
  \A h \in HostIds : Cardinality(ActiveAlerts(h)) <= 1

\* Two passes have both found no alert for the same offline host and are
\* both about to create one.
C27_Witness ==
  \E h \in HostIds :
    /\ \A p \in PassIds : passes[p].pc = "create" /\ passes[p].host = h
    /\ \A i \in 1..Len(alerts) : alerts[i].host_id # h

\* The alert rules with one pass at a time and a clock that runs past the
\* cooldown of an alert.
NextAck ==
  \/ \E r \in AlertReports : ReceiveReport(r, 0)
  \/ EvaluateRules("p1")
  \/ \E h \in HostIds : CheckHost("p1", h)
  \/ CreateAlert("p1")
  \/ ResolveAlerts("p1")
  \/ \E i \in 1..MaxAlerts : AcknowledgeAlert(i)
  \/ Advance(Minutes(1), Minutes(MaxAckMinutes))

SpecAck == InitAlert /\ [][NextAck]_vars

\* An alert of the rule for host h is acknowledged.
Acknowledged(h) ==
  \E i \in 1..Len(alerts) :
    /\ alerts[i].rule_id = OfflineRule.id
    /\ alerts[i].host_id = h
    /\ alerts[i].status = "acknowledged"

\* The step adds an alert for host h.
AlertAdded(h) ==
  /\ Len(alerts') = Len(alerts) + 1
  /\ alerts'[Len(alerts')].host_id = h

\* C28: while an alert of the rule for a host is acknowledged and the host
\* is still offline, no evaluation pass creates a further alert for that
\* host, even after the cooldown has elapsed.
C28_NoAlertWhileAcknowledged ==
  [][\A h \in HostIds :
       (Acknowledged(h) /\ h \in OfflineHosts(hosts, OfflineRule, now))
       => ~AlertAdded(h)]_vars

\* An alert of an offline host is acknowledged and, the cooldown over, a
\* later alert of the same host is active.
C28_Witness ==
  \E i, j \in 1..Len(alerts) :
    /\ i < j
    /\ alerts[i].host_id = alerts[j].host_id
    /\ alerts[i].status = "acknowledged"
    /\ alerts[j].status = "active"
    /\ alerts[j].triggered_at
         >= alerts[i].triggered_at + Minutes(OfflineRule.cooldown_minutes)
    /\ alerts[i].host_id \in OfflineHosts(hosts, OfflineRule, now)

\* ------------------------------------------------------------------------
\* Specification of the agent reporting to the backend
\* ------------------------------------------------------------------------
\* The AgentReport of a tick as the backend reads it: the inventory of h1
\* and, in the metadata, whether last_error held a message.
StreakReport(err) ==
  Report("h1", Desc(1, 1), <<ContainerInfo("c1", 1, IP_C1)>>, <<"n1">>,
         <<CONN_EST>>, <<>>, FALSE, AgentMeta(0, 0, err # ""))

\* run_once with the backend at the other end of the POST.  reached tells
\* whether the request got to the handler: it did when the answer was 200,
\* it did not when a collector raised, and a POST that failed (no
\* connection, or a timeout waiting for the answer) may or may not have.
RunOnceToBackend(collected, post, reached) ==
  /\ Len(ticks) < MaxStreakTicks
  /\ post = "ok" => reached
  /\ ~collected => ~reached
  /\ notify.pc = "idle"
  /\ last_error' = LastErrorAfter(last_error, collected, post)
  /\ IF collected
     THEN /\ agent_report' = Collect(sources, last_error)
          /\ ticks' = Append(ticks, [built |-> TRUE, error |-> last_error,
                                     posts |-> 1, delivered |-> post = "ok",
                                     failure |-> last_error'])
     ELSE /\ ticks' = Append(ticks, [built |-> FALSE, error |-> "",
                                     posts |-> 0, delivered |-> FALSE,
                                     failure |-> last_error'])
          /\ UNCHANGED agent_report
  /\ IF reached
     THEN \E r \in {StreakReport(last_error)} :
          \E d \in {Ingest(DB, r, now, 0)} :
            /\ hosts' = d.hosts
            /\ containers' = d.containers
            /\ networks' = d.networks
            /\ connections' = d.connections
            /\ logs' = d.logs
            /\ metrics' = d.metrics
            /\ resp' = [status |-> 200, failedStep |-> 0, host |-> r.host,
                        stats |-> ReportStats(DB, r)]
            /\ lastReport' = r
            /\ replayed' = (r = lastReport /\ resp.status = 200)
     ELSE UNCHANGED <<storeVars, httpVars>>
  /\ UNCHANGED <<now, wsVars, raceVars, alertVars, sources, sinkVars,
                 notifyVars, graph, matching, captureVars>>

NextStreak ==
  \E collected \in BOOLEAN, post \in {"ok", "failed", "raised"},
     reached \in BOOLEAN :
    RunOnceToBackend(collected, post, reached)

SpecStreak == InitIngest /\ [][NextStreak]_vars

\* The last tick delivered its report and the three ticks before it
\* failed.
DeliveredAfterThreeFailures ==
  /\ Len(ticks) >= 4
  /\ ticks[Len(ticks)].delivered
  /\ \A n \in (Len(ticks) - 3)..(Len(ticks) - 1) : ~ticks[n].delivered

\* C29: when three or more ticks of the agent in a row have failed (the
\* POST failed or the collection raised) and the agent then delivers a
\* report, consecutive_failures of the host on the server is at least 3
\* and the host is scored degraded.
C29_FailedTicksAreCounted ==
  DeliveredAfterThreeFailures
  => /\ "h1" \in DOMAIN hosts
     /\ hosts["h1"].consecutive_failures >= 3
     /\ hosts["h1"].agent_health = "degraded"

\* Three ticks failed without reaching the backend, the fourth delivered
\* its report with the message of the third, and the server has counted
\* one failure.
C29_Witness ==
  /\ Len(ticks) = 4
  /\ DeliveredAfterThreeFailures
  /\ ticks[4].error # ""
  /\ "h1" \in DOMAIN hosts
  /\ hosts["h1"].reports_count = 1
  /\ hosts["h1"].consecutive_failures = 1
  /\ hosts["h1"].agent_health = "unknown"

\* ------------------------------------------------------------------------
\* Specification of the graph with two containers reaching one address
\* ------------------------------------------------------------------------
\* Container c1 connects to n external addresses and container c2 to the
\* k-th of them, read after or before those of c1.
ReuseConns ==
  UNION {{ExternalConns(n)
            \o <<ConnectionInfo("ESTABLISHED", IP(8, 8, 8, k), "c2")>>,
          <<ConnectionInfo("ESTABLISHED", IP(8, 8, 8, k), "c2")>>
            \o ExternalConns(n)} :
           n \in 0..MaxExternalIps, k \in 1..2}

ReuseReports ==
  {Report("h2", Desc(1, 1),
          <<ContainerInfo("c1", 1, IP_C1), ContainerInfo("c2", 1, IP_C2)>>,
          <<"n1">>, conns, <<>>, FALSE, NoMeta) : conns \in ReuseConns}

InitReuse ==
  /\ \E r \in ReuseReports : InitServer(Ingest(EmptyDB, r, 0, 0))
  /\ MatchingStart
  /\ CaptureStart
  /\ AgentStart(NoSources)

SpecReuse == InitReuse /\ [][NextGraph]_vars

HasNode(id) == \E k \in DOMAIN graph.nodes : graph.nodes[k] = id
HasEdge(key) == \E e \in DOMAIN graph.edges : graph.edges[e] = key

\* The external addresses the connections of host h go to.
ExternalTargets(h) ==
  {connections[h][i].target_ip : i \in DOMAIN connections[h]}
  \ {containers[h][c].ip : c \in DOMAIN containers[h]}

\* C30: in a graph, a connection of a container to an external address
\* that has its external node has its edge to that node, however many
\* external nodes there are and in whatever order the connections are read;
\* only addresses beyond 20 distinct ones get no node.
C30_ReuseYieldsEdge ==
  graph.built
  => /\ \A i \in DOMAIN connections["h2"] :
          LET conn == connections["h2"][i]
          IN (/\ conn.source_container_id \in DOMAIN containers["h2"]
              /\ conn.target_ip \in ExternalTargets("h2")
              /\ HasNode(ExternalNode(conn.target_ip)))
             => HasEdge(<<ContainerNode("h2", conn.source_container_id),
                          ExternalNode(conn.target_ip)>>)
     /\ Cardinality(ExternalNodes)
          = IF Cardinality(ExternalTargets("h2")) <= 20
            THEN Cardinality(ExternalTargets("h2")) ELSE 20

\* The graph has 20 external nodes, among them the node of 8.8.8.1 that
\* the connections of c1 created, and the connection of c2 to 8.8.8.1,
\* read last, has no edge.
C30_Witness ==
  /\ graph.built
  /\ Cardinality(ExternalNodes) = 20
  /\ Len(connections["h2"]) > 20
  /\ connections["h2"][Len(connections["h2"])].source_container_id = "c2"
  /\ connections["h2"][Len(connections["h2"])].target_ip = IP(8, 8, 8, 1)
  /\ HasNode(ExternalNode(IP(8, 8, 8, 1)))
  /\ ~HasEdge(<<ContainerNode("h2", "c2"), ExternalNode(IP(8, 8, 8, 1))>>)

====
